---- MODULE Spec2Model ----
(***************************************************************************)
(* GameVault backup engine (src/core/backup_engine.py) as a state machine. *)
(*                                                                         *)
(* The file system under the backup root is the variable `store` (the      *)
(* containers and temporary files, by path) together with `dirs` (the game *)
(* backup directories that exist).  The game's save directory, which is    *)
(* the source tree of backup_game and the target of restore_backup, is     *)
(* `save`; the safety copies restore_backup writes beside it are `safety`. *)
(* `now` is the clock: it stamps both datetime.now() (backup names to the  *)
(* second) and st_mtime, and it may or may not advance between two file    *)
(* operations, so two files can carry the same modification time.          *)
(*                                                                         *)
(* A public call of the engine runs from its Start action to its Return    *)
(* step with no other call interleaved (the engine is synchronous); `op`   *)
(* holds the frame of the call in progress (with the state it started      *)
(* from), `last` the call that returned last (its arguments and result).   *)
(* An I/O failure is an input of a call: `op.fault` names the step of the  *)
(* call at which the operating system raises an error.                     *)
(*                                                                         *)
(* `config` is the list config["backup_collections"][game_id] the main     *)
(* window keeps for the game (src/ui/main_window.py), <<>> while the       *)
(* configuration has no list for the game.                                 *)
(*                                                                         *)
(* `bg` is the backup_game call the main window runs on a second thread    *)
(* (threading.Thread(target=do_backup)), next to the call in `op`.         *)
(*                                                                         *)
(* `cm` is what src/core/config_manager.py works on: the list object that  *)
(* DEFAULT_CONFIG["user_games"] names, the content of config.json, and the *)
(* dictionary the last load_config returned to its caller.                 *)
(***************************************************************************)
EXTENDS Integers, Sequences, FiniteSets, TLC

VARIABLES now, save, dirs, store, safety, op, last, calls, config, bg, cm

vars == <<now, save, dirs, store, safety, op, last, calls, config, bg, cm>>

(***************************************************************************)
(* Bounds of the model.                                                    *)
(***************************************************************************)
\* the clock runs from 1 to MaxTime
MaxTime == 2
\* number of engine calls in one behaviour
MaxCalls == 4

(***************************************************************************)
(* Strings are sequences of characters, so that sorting, encoding and      *)
(* pattern matching are computed rather than assumed.  A character is a    *)
(* one-letter string; the reserved metadata file name is kept as one       *)
(* token, ordered by its first character '_'.                              *)
(***************************************************************************)
BackupInfoName == <<"_backup_info.json">>

CharCode(c) ==
    CASE c = " " -> 32
      [] c = "!" -> 33
      [] c = "-" -> 45
      [] c = "/" -> 47
      [] c = "A" -> 65
      [] c = "_backup_info.json" -> 95
      [] c = "_" -> 95
      [] c = "a" -> 97
      [] c = "b" -> 98
      [] c = "g" -> 103
      [] c = "x" -> 120
      [] c = "y" -> 121

\* Python's str ordering: lexicographic by code point, a proper prefix first
RECURSIVE StrLess(_, _)
StrLess(p, q) ==
    IF q = <<>> THEN FALSE
    ELSE IF p = <<>> THEN TRUE
    ELSE IF CharCode(Head(p)) # CharCode(Head(q))
         THEN CharCode(Head(p)) < CharCode(Head(q))
         ELSE StrLess(Tail(p), Tail(q))

\* sorted(S, key=str): the strings of the set S in ascending order
RECURSIVE SortedStrs(_)
SortedStrs(S) ==
    IF S = {} THEN <<>>
    ELSE LET m == CHOOSE x \in S : \A y \in S \ {x} : StrLess(x, y)
         IN <<m>> \o SortedStrs(S \ {m})

RECURSIVE Concat(_)
Concat(ss) == IF ss = <<>> THEN <<>> ELSE Head(ss) \o Concat(Tail(ss))

(***************************************************************************)
(* Directory trees.  A tree is a function from the relative paths of its   *)
(* regular files to their bytes.                                           *)
(***************************************************************************)
EmptyTree == <<>>

TreeA == (<<"a">> :> <<"x">>)
TreeB == (<<"a">> :> <<"y">>)
TreeM == (<<"a">> :> <<"x">>) @@ (BackupInfoName :> <<"y">>)

\* the save trees the game produces
Trees == {TreeA, TreeM}

NoSave == [exists |-> FALSE, files |-> EmptyTree]
SaveOf(t) == [exists |-> TRUE, files |-> t]

(***************************************************************************)
(* _compute_folder_hash.  The digest is taken to be collision free and is  *)
(* therefore represented by the byte stream fed to the accumulator.        *)
(***************************************************************************)
\* hasher.update(rel_path.encode('utf-8')) then hasher.update(chunk) for each chunk
FileStream(tree, p) == p \o tree[p]

RECURSIVE HashStream(_, _)
HashStream(tree, files) ==
    IF files = <<>> THEN <<>>
    ELSE FileStream(tree, Head(files)) \o HashStream(tree, Tail(files))

Digest(stream) == <<"sha256", stream>>

_compute_folder_hash(tree) ==
    LET all_files == SortedStrs(DOMAIN tree)
    IN Digest(HashStream(tree, all_files))

(***************************************************************************)
(* Names of the backup directories.                                        *)
(***************************************************************************)
GameId == <<"g">>

\* the game name the caller passes: "A!" (sanitized to "A")
GameNames == {<<"A", "!">>}

IsSpace(c) == c = " "
IsWord(c) == c \in {"A", "a", "b", "g", "x", "y", "_"}

RECURSIVE LStrip(_, _)
LStrip(s, cs) == IF s # <<>> /\ Head(s) \in cs THEN LStrip(Tail(s), cs) ELSE s

RECURSIVE RStrip(_, _)
RStrip(s, cs) ==
    IF s # <<>> /\ s[Len(s)] \in cs THEN RStrip(SubSeq(s, 1, Len(s) - 1), cs) ELSE s

Strip(s, cs) == RStrip(LStrip(s, cs), cs)

\* re.sub(r"\s+", " ", s): every run of white space becomes one blank
RECURSIVE CollapseSpace(_)
CollapseSpace(s) ==
    IF s = <<>> THEN <<>>
    ELSE IF IsSpace(Head(s))
         THEN <<" ">> \o CollapseSpace(LStrip(s, {" "}))
         ELSE <<Head(s)>> \o CollapseSpace(Tail(s))

\* safe[:40]
MaxFolderNameLen == 40

_sanitize_folder_name(name) ==
    LET stripped == Strip(name, {" "})
        kept == SelectSeq(stripped, LAMBDA c : IsWord(c) \/ IsSpace(c) \/ c = "-")
        collapsed == Strip(CollapseSpace(kept), {" "})
        underscored == [i \in 1..Len(collapsed) |->
                           IF collapsed[i] = " " THEN "_" ELSE collapsed[i]]
        safe == Strip(underscored, {"_", "-"})
    IN IF stripped = <<>> THEN <<>>
       ELSE SubSeq(safe, 1, IF Len(safe) < MaxFolderNameLen THEN Len(safe)
                                                            ELSE MaxFolderNameLen)

LegacyDir(game_id) == game_id

PreferredDir(game_id, game_name) ==
    LET safe_name == _sanitize_folder_name(game_name)
    IN IF safe_name # <<>> THEN safe_name \o <<"_", "_">> \o game_id
                           ELSE LegacyDir(game_id)

(***************************************************************************)
(* Containers.  A path under the backup root is [dir, ts, ext]: the file   *)
(* {dir}/{game_id}_{ts}.zip, its rewrite file ....zip.tmp, or the folder   *)
(* {dir}/{game_id}_{ts} of the uncompressed form.  A container is its      *)
(* st_mtime, its entries in the order they were written, and whether the   *)
(* archive was closed (an archive cut short has no central directory and   *)
(* cannot be opened).  An entry is a name with its bytes; `json` is what   *)
(* json.load makes of the bytes.                                           *)
(***************************************************************************)
PathOf(d, ts, ext) == [dir |-> d, ts |-> ts, ext |-> ext]

NotJson == [ok |-> FALSE, val |-> <<>>]

\* json.dumps(metadata, indent=2)
Dumps(metadata) == [ok |-> TRUE, val |-> metadata]

FileEntry(p, bytes) == [name |-> p, data |-> bytes, json |-> NotJson]
MetaEntry(metadata) == [name |-> BackupInfoName, data |-> <<>>, json |-> Dumps(metadata)]

IsContainerPath(p) == p.ext \in {"zip", "dir"}

\* the entries of a container that are not named _backup_info.json
UserEntries(entries) == SelectSeq(entries, LAMBDA e : e.name # BackupInfoName)

\* dict.get(key, default)
Get(d, key, default) == IF key \in DOMAIN d THEN d[key] ELSE default

\* the last entry of that name: ZipFile.NameToInfo keeps the one read last
LastNamed(entries, name) ==
    LET idx == {i \in 1..Len(entries) : entries[i].name = name}
    IN entries[CHOOSE i \in idx : \A j \in idx : j <= i]

HasNamed(entries, name) == \E i \in 1..Len(entries) : entries[i].name = name

\* _read_metadata_from_zip: None (here the empty dict, equally false) on any error
_read_metadata_from_zip(c) ==
    IF c.closed /\ HasNamed(c.entries, BackupInfoName)
       /\ LastNamed(c.entries, BackupInfoName).json.ok
    THEN LastNamed(c.entries, BackupInfoName).json.val
    ELSE <<>>

\* the metadata of a folder container; <<>> when the file is absent or unreadable
ReadFolderMetadata(c) ==
    IF HasNamed(c.entries, BackupInfoName)
       /\ LastNamed(c.entries, BackupInfoName).json.ok
    THEN LastNamed(c.entries, BackupInfoName).json.val
    ELSE <<>>

ReadMetadata(p, c) ==
    IF p.ext = "zip" THEN _read_metadata_from_zip(c) ELSE ReadFolderMetadata(c)

\* Python truth of a string value: None and "" are false
Truthy(v) == v # <<>>

\* _get_backup_collection_id; readable = FALSE when reading the container fails
_get_backup_collection_id(p, c, readable) ==
    LET metadata == IF readable THEN ReadMetadata(p, c) ELSE <<>>
        cid == Get(metadata, "collection_id", <<>>)
    IN IF Truthy(cid) THEN cid ELSE <<"default">>

ItemsIn(st, d) == {p \in DOMAIN st : p.dir = d}

\* the directory entries that count as backups: folders and *.zip
BackupsIn(st, d) == {p \in ItemsIn(st, d) : IsContainerPath(p)}

Remove(st, gone) == [p \in DOMAIN st \ gone |-> st[p]]

Put(st, p, c) == [q \in DOMAIN st \cup {p} |-> IF q = p THEN c ELSE st[q]]

(***************************************************************************)
(* Calls, frames and results.                                              *)
(***************************************************************************)
Idle == [name |-> "idle"]

\* the result dictionaries of the engine; `path` is <<>> for None
Fail == [kind |-> "dict", success |-> FALSE, skipped |-> FALSE, path |-> <<>>]
Ok == [kind |-> "dict", success |-> TRUE, skipped |-> FALSE, path |-> <<>>]
Skipped == [kind |-> "dict", success |-> TRUE, skipped |-> TRUE, path |-> <<>>]
Created(p) == [kind |-> "dict", success |-> TRUE, skipped |-> FALSE, path |-> <<p>>]
\* an exception that leaves the public method
Raised == [kind |-> "raised", success |-> FALSE, skipped |-> FALSE, path |-> <<>>]
\* get_backups returns a plain list
Listing(items) == [kind |-> "list", items |-> items]

NoLoc == [pc |-> "none"]

NoCall ==
    [name |-> "none", args |-> <<>>, fault |-> "none", save |-> NoSave,
     result |-> Ok, loc |-> NoLoc]

Frame(name, args, fault) ==
    [name |-> name, args |-> args, fault |-> fault, pre |-> store, preDirs |-> dirs,
     preSave |-> save, preSafety |-> safety, loc |-> NoLoc]

\* the call in frame f returns (or raises) res; the engine never touches the
\* configuration
Return(f, res) ==
    /\ op' = Idle
    /\ calls' = calls + 1
    /\ UNCHANGED <<config, bg, cm>>
    /\ last' = [name |-> f.name, args |-> f.args, fault |-> f.fault,
                save |-> f.preSave, result |-> res, loc |-> f.loc]

\* the call goes on to its next step
Goto(f, loc) ==
    /\ op' = [f EXCEPT !.loc = loc]
    /\ UNCHANGED <<last, calls, config, bg, cm>>

CanCall == op = Idle /\ calls < MaxCalls

(***************************************************************************)
(* _resolve_game_backup_dir: the directory, the directories and the store   *)
(* after the call, and whether mkdir raised.                               *)
(***************************************************************************)
RenameDir(st, from, to) ==
    [p \in {IF q.dir = from THEN [q EXCEPT !.dir = to] ELSE q : q \in DOMAIN st} |->
        IF p.dir = to /\ [p EXCEPT !.dir = from] \in DOMAIN st
        THEN st[[p EXCEPT !.dir = from]] ELSE st[p]]

\* a resolution that creates the preferred directory and leaves the legacy one
ResolveWithoutMigration(ds, st, game_id, game_name, fault) ==
    [dir |-> PreferredDir(game_id, game_name),
     dirs |-> ds \cup {PreferredDir(game_id, game_name)},
     store |-> st, raised |-> FALSE]

\* a resolution that answers the preferred directory also when the rename failed
ResolvePreferredAfterFailure(ds, st, game_id, game_name, fault) ==
    LET legacy_dir == LegacyDir(game_id)
        preferred_dir == PreferredDir(game_id, game_name)
    IN IF preferred_dir \in ds
       THEN [dir |-> preferred_dir, dirs |-> ds, store |-> st, raised |-> FALSE]
       ELSE IF legacy_dir \in ds /\ preferred_dir # legacy_dir
       THEN [dir |-> preferred_dir,
             dirs |-> IF fault = "dir_rename" THEN ds
                      ELSE (ds \ {legacy_dir}) \cup {preferred_dir},
             store |-> IF fault = "dir_rename" THEN st
                       ELSE RenameDir(st, legacy_dir, preferred_dir),
             raised |-> FALSE]
       ELSE [dir |-> preferred_dir, dirs |-> ds \cup {preferred_dir},
             store |-> st, raised |-> fault = "mkdir"]

_resolve_game_backup_dir(ds, st, game_id, game_name, fault) ==
    LET legacy_dir == LegacyDir(game_id)
        preferred_dir == PreferredDir(game_id, game_name)
    IN IF preferred_dir \in ds
       THEN [dir |-> preferred_dir, dirs |-> ds, store |-> st, raised |-> FALSE]
       ELSE IF legacy_dir \in ds /\ preferred_dir # legacy_dir
       THEN IF fault = "dir_rename"
            THEN [dir |-> legacy_dir, dirs |-> ds, store |-> st, raised |-> FALSE]
            ELSE [dir |-> preferred_dir,
                  dirs |-> (ds \ {legacy_dir}) \cup {preferred_dir},
                  store |-> RenameDir(st, legacy_dir, preferred_dir),
                  raised |-> FALSE]
       ELSE IF fault = "mkdir"
            THEN [dir |-> preferred_dir, dirs |-> ds, store |-> st, raised |-> TRUE]
            ELSE [dir |-> preferred_dir, dirs |-> ds \cup {preferred_dir},
                  store |-> st, raised |-> FALSE]

(***************************************************************************)
(* _compute_folder_hash called on its own.  rglob("*") enumerates the tree *)
(* in an order of the file system's choosing (`walk`); sorted() is a       *)
(* stable sort of that list by str(relative path).                         *)
(***************************************************************************)
\* list.insert at the place a stable sort by str gives the element
RECURSIVE InsertSorted(_, _)
InsertSorted(sorted, x) ==
    IF sorted = <<>> THEN <<x>>
    ELSE IF StrLess(x, Head(sorted)) THEN <<x>> \o sorted
    ELSE <<Head(sorted)>> \o InsertSorted(Tail(sorted), x)

\* sorted(walk, key=str)
RECURSIVE SortedWalk(_)
SortedWalk(walk) ==
    IF walk = <<>> THEN <<>>
    ELSE InsertSorted(SortedWalk(SubSeq(walk, 1, Len(walk) - 1)), walk[Len(walk)])

\* the orders in which a traversal can enumerate the files S
RECURSIVE Walks(_)
Walks(S) ==
    IF S = {} THEN {<<>>}
    ELSE UNION {{<<x>> \o w : w \in Walks(S \ {x})} : x \in S}

\* a hash that feeds the files in the order of the traversal
UnsortedHashOfWalk(tree, walk) == Digest(HashStream(tree, walk))

\* lines 32-51 for the enumeration `walk`
HashOfWalk(tree, walk) == Digest(HashStream(tree, SortedWalk(walk)))

Hashed(h) == [kind |-> "hash", success |-> TRUE, skipped |-> FALSE, hash |-> h]

\* a call of _compute_folder_hash(save_path)
HashCall(budget) ==
    /\ CanCall
    /\ calls < budget
    /\ save.exists
    /\ UNCHANGED <<now, save, dirs, store, safety>>
    /\ \E walk \in Walks(DOMAIN save.files) :
          Return([Frame("hash", <<>>, "none") EXCEPT !.loc = [pc |-> "none", walk |-> walk]],
                 Hashed(HashOfWalk(save.files, walk)))

\* the files of the trees hashed with read errors hold at most MaxFileLen bytes
MaxFileLen == 2

\* lines 37-49 for a file of which `n` bytes could be read: the relative path
\* is fed before the file is opened, and the chunks read before the error stay
ReadStream(tree, p, n) == p \o SubSeq(tree[p], 1, n)

RECURSIVE ReadHashStream(_, _, _)
ReadHashStream(tree, files, got) ==
    IF files = <<>> THEN <<>>
    ELSE ReadStream(tree, Head(files), got[Head(files)])
            \o ReadHashStream(tree, Tail(files), got)

\* the ways reading the files of a tree can go: got[p] = Len(tree[p]) for a
\* file read to its end, less for one whose open or read raised
Readings(tree) ==
    {got \in [DOMAIN tree -> 0..MaxFileLen] : \A p \in DOMAIN tree : got[p] <= Len(tree[p])}

Unreadable(tree, got) == {p \in DOMAIN tree : got[p] < Len(tree[p])}

\* a call of _compute_folder_hash(save_path) on a tree with unreadable files
HashCallUnreadable(budget) ==
    /\ CanCall
    /\ calls < budget
    /\ save.exists
    /\ UNCHANGED <<now, save, dirs, store, safety>>
    /\ \E got \in Readings(save.files) :
          Return([Frame("hash", <<>>, "none") EXCEPT !.loc = [pc |-> "none", got |-> got]],
                 Hashed(Digest(ReadHashStream(save.files, SortedStrs(DOMAIN save.files), got))))

\* the directory a call of _resolve_game_backup_dir returned
Resolved(d) == [kind |-> "path", success |-> TRUE, skipped |-> FALSE, path |-> <<d>>]

ResolveArgs(game_name) == [game_name |-> game_name]

\* a call of _resolve_game_backup_dir(game_id, game_name) on its own
ResolveDir(args, fault) ==
    /\ CanCall
    /\ UNCHANGED <<now, save, safety>>
    /\ LET r == _resolve_game_backup_dir(dirs, store, GameId, args.game_name, fault)
       IN /\ dirs' = r.dirs
          /\ store' = r.store
          /\ Return(Frame("resolve", args, fault),
                    IF r.raised THEN Raised ELSE Resolved(r.dir))

(***************************************************************************)
(* _get_latest_backup_hash.  sorted(..., key=st_mtime, reverse=True) is    *)
(* stable, so among the containers with the greatest st_mtime the first    *)
(* one in iterdir() order is taken, and that order is the file system's.   *)
(***************************************************************************)
\* a comparison that takes any container of the directory for the latest
AnyCandidates(st, d) == BackupsIn(st, d)

LatestCandidates(st, d) ==
    {p \in BackupsIn(st, d) : \A q \in BackupsIn(st, d) : st[q].mtime <= st[p].mtime}

\* the hash recorded in the container `latest`; <<>> is None
LatestHashOf(st, latest, readable) ==
    LET metadata == IF readable THEN ReadMetadata(latest, st[latest]) ELSE <<>>
    IN IF Truthy(metadata) THEN Get(metadata, "content_hash", <<>>) ELSE <<>>

\* the values _get_latest_backup_hash can return
_get_latest_backup_hash(ds, st, d, readable) ==
    IF d \notin ds \/ BackupsIn(st, d) = {} THEN {<<>>}
    ELSE {LatestHashOf(st, latest, readable) : latest \in LatestCandidates(st, d)}

(***************************************************************************)
(* _apply_rolling_limit.                                                   *)
(***************************************************************************)
\* BackupEngine.__init__(backup_root, max_backups=10): the engine modelled is
\* constructed with max_backups = 2, so that the default binds within the bounds
max_backups == 2

\* the values a caller can pass as retention_limit: None, an int, a str, a list
NoneLimit == [kind |-> "none", val |-> 0, text |-> <<>>]
IntLimit(n) == [kind |-> "int", val |-> n, text |-> <<>>]
StrLimit(s) == [kind |-> "str", val |-> 0, text |-> s]
ListLimit == [kind |-> "list", val |-> 0, text |-> <<>>]

DigitValue(c) == IF c = "0" THEN 0 ELSE IF c = "1" THEN 1 ELSE 2

\* the number a string of decimal digits writes
RECURSIVE DecimalValue(_)
DecimalValue(s) ==
    IF s = <<>> THEN 0
    ELSE 10 * DecimalValue(SubSeq(s, 1, Len(s) - 1)) + DigitValue(s[Len(s)])

\* int(retention_limit) as <<n>>; <<>> when it raises TypeError or ValueError
IntOf(retention_limit) ==
    IF retention_limit.kind = "int" THEN <<retention_limit.val>>
    ELSE IF /\ retention_limit.kind = "str"
            /\ retention_limit.text # <<>>
            /\ \A i \in 1..Len(retention_limit.text) :
                  retention_limit.text[i] \in {"0", "1", "2"}
    THEN <<DecimalValue(retention_limit.text)>>
    ELSE <<>>

\* a resolution that takes max_backups for a limit that cannot be converted
ResolveLimitDefaulting(retention_enabled, retention_limit) ==
    IF ~retention_enabled THEN <<>>
    ELSE LET n == IF retention_limit.kind = "none" \/ IntOf(retention_limit) = <<>>
                  THEN <<max_backups>>
                  ELSE IntOf(retention_limit)
         IN IF n[1] <= 0 THEN <<>> ELSE n

\* the limit enforced, as <<n>>; <<>> when retention does nothing
ResolveLimit(retention_enabled, retention_limit) ==
    IF ~retention_enabled THEN <<>>
    ELSE LET n == IF retention_limit.kind = "none" THEN <<max_backups>>
                  ELSE IntOf(retention_limit)
         IN IF n = <<>> THEN <<>>
            ELSE IF n[1] <= 0 THEN <<>> ELSE n

CollectionBackups(st, d, collection_id, readable) ==
    LET target_collection == IF Truthy(collection_id) THEN collection_id
                             ELSE <<"default">>
    IN {p \in BackupsIn(st, d) :
           _get_backup_collection_id(p, st[p], readable) = target_collection}

\* a retention run that pops the newest containers instead of the oldest
EvictionSetsNewest(st, d, collection_id, limit, readable) ==
    LET collection_backups == CollectionBackups(st, d, collection_id, readable)
        excess == Cardinality(collection_backups) - limit
    IN IF excess <= 0 THEN {{}}
       ELSE {E \in SUBSET collection_backups :
                /\ Cardinality(E) = excess
                /\ \A e \in E : \A k \in collection_backups \ E :
                       st[k].mtime <= st[e].mtime}

\* the sets of containers the while loop can pop: the list is sorted by
\* st_mtime ascending (stable), and containers with equal st_mtime keep the
\* order iterdir() gave them
EvictionSets(st, d, collection_id, limit, readable) ==
    LET collection_backups == CollectionBackups(st, d, collection_id, readable)
        excess == Cardinality(collection_backups) - limit
    IN IF excess <= 0 THEN {{}}
       ELSE {E \in SUBSET collection_backups :
                /\ Cardinality(E) = excess
                /\ \A e \in E : \A k \in collection_backups \ E :
                       st[e].mtime <= st[k].mtime}

(***************************************************************************)
(* Initial states: a fresh backup root, or a root that already holds the   *)
(* legacy directory {root}/{game_id} with one folder-form container whose  *)
(* metadata has no display_name and no collection_id, written at time 0.   *)
(* The clock starts at 1.                                                  *)
(***************************************************************************)
LegacyMetadata ==
    [game_id |-> GameId, game_name |-> <<"A", "!">>, source_path |-> <<"save">>,
     backup_time |-> <<"iso", 0>>, backup_name |-> <<GameId, 0>>,
     content_hash |-> _compute_folder_hash(TreeB)]

LegacyFolder ==
    [mtime |-> 0, closed |-> TRUE,
     entries |-> <<FileEntry(<<"a">>, <<"y">>), MetaEntry(LegacyMetadata)>>]

Init ==
    /\ now = 1
    /\ save = SaveOf(TreeA)
    /\ \/ dirs = {} /\ store = <<>>
       \/ /\ dirs = {LegacyDir(GameId)}
          /\ store = (PathOf(LegacyDir(GameId), 0, "dir") :> LegacyFolder)
    /\ safety = <<>>
    /\ op = Idle
    /\ last = NoCall
    /\ calls = 0
    /\ config = <<>>
    /\ bg = [pc |-> "idle"]
    /\ cm = [default_games |-> <<>>, own_games |-> <<>>, file |-> <<>>, held |-> <<>>]

(***************************************************************************)
(* The environment: the clock advances, the game rewrites its saves.       *)
(***************************************************************************)
Tick ==
    /\ CanCall
    /\ now < MaxTime
    /\ now' = now + 1
    /\ UNCHANGED <<save, dirs, store, safety, op, last, calls, config, bg, cm>>

ModifySave(saves) ==
    /\ CanCall
    /\ \E s \in saves :
          /\ s # save
          /\ save' = s
    /\ UNCHANGED <<now, dirs, store, safety, op, last, calls, config, bg, cm>>

(***************************************************************************)
(* backup_game.                                                            *)
(***************************************************************************)
BackupArgs(game_name, force, display_name, collection_id, retention_enabled, retention_limit) ==
    [game_name |-> game_name, force |-> force, display_name |-> display_name,
     collection_id |-> collection_id, retention_enabled |-> retention_enabled,
     retention_limit |-> retention_limit]

\* a backup_game that resolves the backup directory before it validates the source
BackupStartResolvesFirst(args, fault) ==
    /\ CanCall
    /\ UNCHANGED <<now, save, safety>>
    /\ LET f == Frame("backup", args, fault)
           r == _resolve_game_backup_dir(dirs, store, GameId, args.game_name, fault)
       IN /\ dirs' = r.dirs
          /\ store' = r.store
          /\ IF ~save.exists \/ r.raised
             THEN Return(f, Fail)
             ELSE Goto(f, [pc |-> "write", dir |-> r.dir,
                           current_hash |-> _compute_folder_hash(save.files),
                           zip_path |-> PathOf(r.dir, now, "zip"),
                           evicted |-> {}])

\* lines 165-197: VALIDATE, resolve the directory, HASH, DEDUP_CHECK
BackupStart(args, fault) ==
    /\ CanCall
    /\ UNCHANGED <<now, save, safety>>
    /\ LET f == Frame("backup", args, fault)
           r == _resolve_game_backup_dir(dirs, store, GameId, args.game_name, fault)
           current_hash == _compute_folder_hash(save.files)
       IN IF ~save.exists
          THEN UNCHANGED <<dirs, store>> /\ Return(f, Fail)
          ELSE IF r.raised
          THEN UNCHANGED <<dirs, store>> /\ Return(f, Raised)
          ELSE /\ dirs' = r.dirs
               /\ store' = r.store
               /\ IF fault = "hash"
                  THEN Return(f, Raised)
                  ELSE IF ~args.force /\ fault = "latest_stat"
                          /\ BackupsIn(r.store, r.dir) # {}
                  THEN Return(f, Raised)
                  ELSE \E latest_hash \in
                          IF args.force THEN {<<>>}
                          ELSE _get_latest_backup_hash(r.dirs, r.store, r.dir,
                                                       fault # "latest_read") :
                          IF ~args.force /\ Truthy(latest_hash)
                             /\ latest_hash = current_hash
                          THEN Return(f, Skipped)
                          ELSE Goto(f, [pc |-> "write", dir |-> r.dir,
                                        current_hash |-> current_hash,
                                        zip_path |-> PathOf(r.dir, now, "zip"),
                                        evicted |-> {}])

\* lines 200-215: the BackupRecord
BackupMetadata(args, loc, t) ==
    [game_id |-> GameId, game_name |-> args.game_name, source_path |-> <<"save">>,
     backup_time |-> <<"iso", t>>, backup_name |-> <<GameId, loc.zip_path.ts>>,
     display_name |-> Strip(args.display_name, {" "}),
     collection_id |-> IF Truthy(args.collection_id) THEN args.collection_id
                       ELSE <<"default">>,
     content_hash |-> loc.current_hash, compression |-> <<"zip">>]

\* zf.write(file_path, arcname) for every regular file of the tree
RECURSIVE TreeEntries(_, _)
TreeEntries(tree, files) ==
    IF files = <<>> THEN <<>>
    ELSE <<FileEntry(Head(files), tree[Head(files)])>> \o TreeEntries(tree, Tail(files))

\* lines 218-226: the archive as closed by the with block
WrittenArchive(tree, metadata, t) ==
    [mtime |-> t, closed |-> TRUE,
     entries |-> TreeEntries(tree, SortedStrs(DOMAIN tree)) \o <<MetaEntry(metadata)>>]

\* an archive whose writing was cut short: created or truncated, never closed
PartialArchive(t) == [mtime |-> t, closed |-> FALSE, entries |-> <<>>]

\* lines 217-229: WRITE
BackupWrite ==
    /\ op.name = "backup"
    /\ op.loc.pc = "write"
    /\ UNCHANGED <<now, save, dirs, safety>>
    /\ IF op.fault = "write"
       THEN /\ store' = Put(store, op.loc.zip_path, PartialArchive(now))
            /\ Goto(op, [op.loc EXCEPT !.pc = "cleanup"])
       ELSE /\ store' = Put(store, op.loc.zip_path,
                            WrittenArchive(save.files,
                                           BackupMetadata(op.args, op.loc, now), now))
            /\ Goto(op, [op.loc EXCEPT !.pc = "retain"])

\* lines 231-250: RETAIN and DONE; an exception goes to the handler at 252
BackupRetain ==
    /\ op.name = "backup"
    /\ op.loc.pc = "retain"
    /\ UNCHANGED <<now, save, dirs, safety>>
    /\ LET limit == ResolveLimit(op.args.retention_enabled, op.args.retention_limit)
       IN IF limit = <<>>
          THEN UNCHANGED store /\ Return(op, Created(op.loc.zip_path))
          ELSE IF op.fault = "retain_stat"
          THEN UNCHANGED store /\ Goto(op, [op.loc EXCEPT !.pc = "cleanup"])
          ELSE \E E \in EvictionSets(store, op.loc.dir, op.args.collection_id,
                                     limit[1], op.fault # "retain_read") :
                  /\ store' = IF op.fault = "retain_delete" THEN store
                              ELSE Remove(store, E)
                  /\ Return([op EXCEPT !.loc.evicted = E], Created(op.loc.zip_path))

\* lines 252-262: the exception handler
BackupCleanup ==
    /\ op.name = "backup"
    /\ op.loc.pc = "cleanup"
    /\ UNCHANGED <<now, save, dirs, safety>>
    /\ store' = Remove(store, {op.loc.zip_path} \cap DOMAIN store)
    /\ Return(op, Fail)

(***************************************************************************)
(* backup_game on the second thread.  The steps are those of the call in   *)
(* `op`; the two calls share the backup directory and interleave step by   *)
(* step.                                                                   *)
(***************************************************************************)
\* an archive name that carries a mark of the thread next to the timestamp
BgZipPathPerThread(d, t) == PathOf(d, t + 10, "zip")

\* lines 195-197: the archive is named after the game id and the second
BgZipPath(d, t) == PathOf(d, t, "zip")

\* the call has not returned yet
NoResult == [kind |-> "none", success |-> FALSE, skipped |-> FALSE, path |-> <<>>]

\* lines 165-197 on the second thread
BgStart(args) ==
    /\ bg.pc = "idle"
    /\ UNCHANGED <<now, save, safety, op, last, calls, config, cm>>
    /\ LET r == _resolve_game_backup_dir(dirs, store, GameId, args.game_name, "none")
           current_hash == _compute_folder_hash(save.files)
       IN IF ~save.exists
          THEN UNCHANGED <<dirs, store>> /\ bg' = [pc |-> "done", result |-> Fail]
          ELSE /\ dirs' = r.dirs
               /\ store' = r.store
               /\ \E latest_hash \in
                     IF args.force THEN {<<>>}
                     ELSE _get_latest_backup_hash(r.dirs, r.store, r.dir, TRUE) :
                     IF ~args.force /\ Truthy(latest_hash) /\ latest_hash = current_hash
                     THEN bg' = [pc |-> "done", result |-> Skipped]
                     ELSE bg' = [pc |-> "write", args |-> args, dir |-> r.dir,
                                 current_hash |-> current_hash,
                                 latest_hash |-> latest_hash, timestamp |-> now,
                                 zip_path |-> BgZipPath(r.dir, now),
                                 result |-> NoResult]

\* lines 217-229 on the second thread
BgWrite ==
    /\ bg.pc = "write"
    /\ UNCHANGED <<now, save, dirs, safety, op, last, calls, config, cm>>
    /\ store' = Put(store, bg.zip_path,
                    WrittenArchive(save.files, BackupMetadata(bg.args, bg, now), now))
    /\ bg' = [bg EXCEPT !.pc = "retain"]

\* lines 231-250 on the second thread
BgRetain ==
    /\ bg.pc = "retain"
    /\ UNCHANGED <<now, save, dirs, safety, op, last, calls, config, cm>>
    /\ LET limit == ResolveLimit(bg.args.retention_enabled, bg.args.retention_limit)
       IN \E E \in IF limit = <<>> THEN {{}}
                   ELSE EvictionSets(store, bg.dir, bg.args.collection_id, limit[1], TRUE) :
             /\ store' = Remove(store, E)
             /\ bg' = [bg EXCEPT !.pc = "done", !.result = Created(bg.zip_path)]

(***************************************************************************)
(* rename_backup.                                                          *)
(***************************************************************************)
\* a path that names nothing under the backup root
MissingPath == PathOf(<<"x">>, 0, "zip")

\* the paths a caller passes: the containers it was shown, or a stale one
CallerPaths == {p \in DOMAIN store : IsContainerPath(p)} \cup {MissingPath}

\* an Optional[str] argument
NotGiven == [given |-> FALSE, val |-> <<>>]
Given(v) == [given |-> TRUE, val |-> v]

SetKey(d, key, v) == [k \in DOMAIN d \cup {key} |-> IF k = key THEN v ELSE d[k]]
SetDefault(d, key, v) == IF key \in DOMAIN d THEN d ELSE SetKey(d, key, v)

\* lines 459-461 and 488-490
WithNames(metadata, display_name, collection_id) ==
    LET named == SetKey(metadata, "display_name", Strip(display_name, {" "}))
    IN IF collection_id.given
       THEN SetKey(named, "collection_id",
                   IF Truthy(collection_id.val) THEN collection_id.val
                   ELSE <<"default">>)
       ELSE named

\* lines 456-461: the metadata of the rewritten archive
RenamedZipMetadata(p, c, display_name, collection_id, readable, t) ==
    LET read == IF readable THEN _read_metadata_from_zip(c) ELSE <<>>
        named == SetDefault(SetDefault(read, "backup_name", <<GameId, p.ts>>),
                            "backup_time", <<"iso", t>>)
    IN WithNames(named, display_name, collection_id)

\* lines 465-472: every entry but those named _backup_info.json, then the metadata
RewrittenArchive(c, metadata, t) ==
    [mtime |-> t, closed |-> TRUE,
     entries |-> UserEntries(c.entries) \o <<MetaEntry(metadata)>>]

\* lines 480-497: the folder form, metadata rewritten in place; open(.., "w")
\* empties the file before json.dump writes, so a failed write leaves it unreadable
RenamedFolder(c, display_name, collection_id, readable, written, t) ==
    LET read == IF readable THEN ReadFolderMetadata(c) ELSE <<>>
        metadata == WithNames(read, display_name, collection_id)
        entry == IF written THEN MetaEntry(metadata)
                 ELSE [name |-> BackupInfoName, data |-> <<>>, json |-> NotJson]
    IN [c EXCEPT !.entries = UserEntries(c.entries) \o <<entry>>,
                 !.mtime = IF HasNamed(c.entries, BackupInfoName) THEN c.mtime ELSE t]

RenameArgs(path, display_name, collection_id) ==
    [path |-> path, display_name |-> display_name, collection_id |-> collection_id]

\* lines 446-463, and 480-497 for a folder
RenameStart(args, fault) ==
    /\ CanCall
    /\ UNCHANGED <<now, save, dirs, safety>>
    /\ LET f == Frame("rename", args, fault)
           p == args.path
       IN IF p \notin DOMAIN store
          THEN UNCHANGED store /\ Return(f, Fail)
          ELSE IF p.ext = "zip"
          THEN /\ UNCHANGED store
               /\ Goto(f, [pc |-> "rewrite",
                           metadata |-> RenamedZipMetadata(p, store[p],
                                           args.display_name, args.collection_id,
                                           fault # "meta_read", now),
                           tmp_path |-> [p EXCEPT !.ext = "tmp"]])
          ELSE /\ store' = Put(store, p,
                               RenamedFolder(store[p], args.display_name,
                                             args.collection_id, fault # "meta_read",
                                             fault # "write_meta", now))
               /\ Return(f, IF fault = "write_meta" THEN Fail ELSE Ok)

\* lines 465-472: both archives are opened, the entries copied, both closed
RenameRewrite ==
    /\ op.name = "rename"
    /\ op.loc.pc = "rewrite"
    /\ UNCHANGED <<now, save, dirs, safety>>
    /\ IF op.fault = "read_src" \/ ~store[op.args.path].closed
       THEN UNCHANGED store /\ Goto(op, [op.loc EXCEPT !.pc = "failed"])
       ELSE IF op.fault = "write_tmp"
       THEN /\ store' = Put(store, op.loc.tmp_path, PartialArchive(now))
            /\ Goto(op, [op.loc EXCEPT !.pc = "failed"])
       ELSE /\ store' = Put(store, op.loc.tmp_path,
                            RewrittenArchive(store[op.args.path], op.loc.metadata, now))
            /\ Goto(op, [op.loc EXCEPT !.pc = "replace"])

\* lines 473-474: tmp_path.replace(backup_path)
RenameReplace ==
    /\ op.name = "rename"
    /\ op.loc.pc = "replace"
    /\ UNCHANGED <<now, save, dirs, safety>>
    /\ IF op.fault = "replace"
       THEN UNCHANGED store /\ Goto(op, [op.loc EXCEPT !.pc = "failed"])
       ELSE /\ store' = Put(Remove(store, {op.loc.tmp_path}), op.args.path,
                            store[op.loc.tmp_path])
            /\ Return(op, Ok)

\* a handler that reports the failure and leaves the temporary file behind
RenameFailedKeepsTmp ==
    /\ op.name = "rename"
    /\ op.loc.pc = "failed"
    /\ UNCHANGED <<now, save, dirs, safety, store>>
    /\ Return(op, Fail)

\* lines 475-478: the exception handler
RenameFailed ==
    /\ op.name = "rename"
    /\ op.loc.pc = "failed"
    /\ UNCHANGED <<now, save, dirs, safety>>
    /\ store' = Remove(store, {op.loc.tmp_path} \cap DOMAIN store)
    /\ Return(op, Fail)

(***************************************************************************)
(* delete_backup.                                                          *)
(***************************************************************************)
DeleteArgs(path) == [path |-> path]

delete_backup(args, fault) ==
    /\ CanCall
    /\ UNCHANGED <<now, save, dirs, safety>>
    /\ LET f == Frame("delete", args, fault)
       IN IF args.path \notin DOMAIN store
          THEN UNCHANGED store /\ Return(f, Fail)
          ELSE IF fault = "delete"
          THEN UNCHANGED store /\ Return(f, Fail)
          ELSE store' = Remove(store, {args.path}) /\ Return(f, Ok)

(***************************************************************************)
(* restore_backup.  The target is the game's save directory.               *)
(***************************************************************************)
Restrict(tree, keep) == [p \in keep |-> tree[p]]

\* what extracting (or copying) the given entries leaves in an empty directory
ExtractTree(entries) ==
    [n \in {entries[i].name : i \in 1..Len(entries)} |-> LastNamed(entries, n).data]

RestoreArgs(path) == [path |-> path]

\* lines 388-399
RestoreStart(args, fault) ==
    /\ CanCall
    /\ UNCHANGED <<now, save, dirs, store, safety>>
    /\ LET f == Frame("restore", args, fault)
       IN IF args.path \notin DOMAIN store
          THEN Return(f, Fail)
          ELSE Goto(f, [pc |-> IF save.exists THEN "copy" ELSE "extract"])

\* a restore that goes on to rmtree whatever became of the safety copy
RestoreCopyContinues ==
    /\ op.name = "restore"
    /\ op.loc.pc = "copy"
    /\ UNCHANGED <<now, save, dirs, store>>
    /\ \E part \in SUBSET (DOMAIN save.files) :
          /\ op.fault # "copy" => part = DOMAIN save.files
          /\ safety' = [t \in DOMAIN safety \cup {now} |->
                           IF t = now THEN Restrict(save.files, part) ELSE safety[t]]
    /\ Goto(op, [pc |-> "rmtree"])

\* lines 400-401: shutil.copytree(target_path, safety_backup); it raises when
\* the destination exists, or when a file could not be copied
RestoreCopy ==
    /\ op.name = "restore"
    /\ op.loc.pc = "copy"
    /\ UNCHANGED <<now, save, dirs, store>>
    /\ IF now \in DOMAIN safety
       THEN UNCHANGED safety /\ Return(op, Fail)
       ELSE IF op.fault = "copy"
       THEN \E part \in SUBSET (DOMAIN save.files) :
               /\ part # DOMAIN save.files \/ save.files = EmptyTree
               /\ safety' = IF save.files = EmptyTree THEN safety
                            ELSE safety @@ (now :> Restrict(save.files, part))
               /\ Return(op, Fail)
       ELSE /\ safety' = safety @@ (now :> save.files)
            /\ Goto(op, [pc |-> "rmtree"])

\* line 402: shutil.rmtree(target_path); a failure leaves some files behind
RestoreRmtree ==
    /\ op.name = "restore"
    /\ op.loc.pc = "rmtree"
    /\ UNCHANGED <<now, dirs, store, safety>>
    /\ IF op.fault = "rmtree"
       THEN \E left \in SUBSET (DOMAIN save.files) :
               /\ left # {} \/ save.files = EmptyTree
               /\ save' = SaveOf(Restrict(save.files, left))
               /\ Return(op, Fail)
       ELSE /\ save' = NoSave
            /\ Goto(op, [pc |-> "extract"])

\* lines 405-431: mkdir, then every member but _backup_info.json
RestoreExtract ==
    /\ op.name = "restore"
    /\ op.loc.pc = "extract"
    /\ UNCHANGED <<now, dirs, store, safety>>
    /\ LET c == store[op.args.path]
           members == UserEntries(c.entries)
       IN IF ~c.closed
          THEN save' = SaveOf(EmptyTree) /\ Return(op, Fail)
          ELSE IF op.fault = "extract"
          THEN \E n \in 0..Len(members) :
                  /\ n < Len(members) \/ members = <<>>
                  /\ save' = SaveOf(ExtractTree(SubSeq(members, 1, n)))
                  /\ Return(op, Fail)
          ELSE /\ save' = SaveOf(ExtractTree(members))
               /\ Return(op, Ok)

(***************************************************************************)
(* get_backups.                                                            *)
(***************************************************************************)
IsSuffix(suffix, s) ==
    /\ Len(suffix) <= Len(s)
    /\ SubSeq(s, Len(s) - Len(suffix) + 1, Len(s)) = suffix

\* legacy_dir if it exists, and every directory matching *__{game_id}
_find_game_backup_dirs(ds, game_id) ==
    {d \in ds : d = LegacyDir(game_id) \/ IsSuffix(<<"_", "_">> \o game_id, d)}

\* lines 340-370: the record listed for a container, <<>> when it is left out
ListedRecord(p, c) ==
    LET metadata == ReadMetadata(p, c)
        listed == \/ (p.ext = "zip" /\ Truthy(metadata))
                  \/ (p.ext = "dir" /\ HasNamed(c.entries, BackupInfoName)
                      /\ LastNamed(c.entries, BackupInfoName).json.ok)
    IN IF listed
       THEN SetKey(SetKey(SetDefault(SetDefault(metadata, "display_name", <<>>),
                                     "collection_id", <<"default">>),
                          "path", p),
                   "is_compressed", p.ext = "zip")
       ELSE <<>>

\* list.insert at the place a stable sort by st_mtime, reverse=True, gives x:
\* after every element that is as new or newer
RECURSIVE InsertNewestFirst(_, _, _)
InsertNewestFirst(st, sorted, x) ==
    IF sorted = <<>> THEN <<x>>
    ELSE IF st[Head(sorted)].mtime < st[x].mtime THEN <<x>> \o sorted
    ELSE <<Head(sorted)>> \o InsertNewestFirst(st, Tail(sorted), x)

\* sorted(items, key=st_mtime, reverse=True)
RECURSIVE SortNewestFirst(_, _)
SortNewestFirst(st, items) ==
    IF items = <<>> THEN <<>>
    ELSE InsertNewestFirst(st, SortNewestFirst(st, SubSeq(items, 1, Len(items) - 1)),
                           items[Len(items)])

\* a listing that keeps the records in the order the directories gave them
DirectoryOrder(st, items) == items

\* lines 127-136 as a list: legacy_dir first, then the matches of the glob in
\* the order the file system gives them
DirLists(ds, game_id) ==
    LET legacy == IF LegacyDir(game_id) \in ds THEN <<LegacyDir(game_id)>> ELSE <<>>
        globbed == _find_game_backup_dirs(ds, game_id) \ {LegacyDir(game_id)}
    IN {legacy \o w : w \in Walks(globbed)}

\* lines 339-370 for one directory: the listed containers of iterdir(), newest first
DirListings(st, d) ==
    {SelectSeq(SortNewestFirst(st, w), LAMBDA p : ListedRecord(p, st[p]) # <<>>) :
        w \in Walks({p \in DOMAIN st : p.dir = d})}

\* lines 338-370: the listings of the directories, one after the other
RECURSIVE Appended(_, _)
Appended(st, dirList) ==
    IF dirList = <<>> THEN {<<>>}
    ELSE {l \o rest : l \in DirListings(st, Head(dirList)),
                       rest \in Appended(st, Tail(dirList))}

\* line 372: backups.sort(key=_sort_mtime, reverse=True)
FinalOrder(st, items) == SortNewestFirst(st, items)

\* the orders in which get_backups can return the containers
CatalogOrders(st, ds, game_id) ==
    UNION {{FinalOrder(st, items) : items \in Appended(st, dirList)} :
              dirList \in DirLists(ds, game_id)}

ListArgs == [game_id |-> GameId]

get_backups(fault) ==
    /\ CanCall
    /\ UNCHANGED <<now, save, dirs, store, safety>>
    /\ LET f == Frame("get_backups", ListArgs, fault)
           game_backup_dirs == _find_game_backup_dirs(dirs, GameId)
           items == {p \in DOMAIN store : p.dir \in game_backup_dirs}
       IN IF fault = "stat" /\ items # {}
          THEN Return(f, Raised)
          ELSE \E order \in CatalogOrders(store, dirs, GameId) :
                  Return(f, Listing([i \in 1..Len(order) |->
                                        ListedRecord(order[i], store[order[i]])]))

(***************************************************************************)
(* The collection list of the main window: config["backup_collections"]    *)
(* for the game, a list of {"id", "name"} entries.                         *)
(***************************************************************************)
DefaultId == <<"default">>
MainCollection == [id |-> DefaultId, name |-> <<"M", "a", "i", "n">>]

\* str.lower() on the letters the names are made of
Lower(c) == IF c = "M" THEN "m" ELSE IF c = "N" THEN "n" ELSE c
LowerStr(s) == [i \in 1..Len(s) |-> Lower(s[i])]

HasId(collections, id) == \E i \in 1..Len(collections) : collections[i].id = id

\* the list the accessor returns; it is also the list the configuration holds
\* afterwards, for the accessor stores what it adds
_get_game_collections(cfg) ==
    LET collections == IF cfg = <<>> THEN <<MainCollection>> ELSE cfg
    IN IF HasId(collections, DefaultId) THEN collections
       ELSE <<MainCollection>> \o collections

\* no listed backup carries the collection id
_collection_is_empty(st, ds, collection_id) ==
    LET game_backup_dirs == _find_game_backup_dirs(ds, GameId)
        backups == {ListedRecord(p, st[p]) : p \in {q \in DOMAIN st : q.dir \in game_backup_dirs}}
    IN ~\E backup \in backups : backup # <<>> /\ backup["collection_id"] = collection_id

\* _create_collection returns Optional[str]; `id` is <<>> for None
CollectionId(v) ==
    [kind |-> "id", success |-> v # <<>>, skipped |-> FALSE, path |-> <<>>, id |-> v]

\* a call of the main window returns res and leaves the list cfg behind
ReturnConfig(f, res, cfg) ==
    /\ op' = Idle
    /\ calls' = calls + 1
    /\ config' = cfg
    /\ UNCHANGED <<bg, cm>>
    /\ last' = [name |-> f.name, args |-> f.args, fault |-> f.fault,
                save |-> f.preSave, result |-> res, loc |-> f.loc]

CreateCollectionArgs(name) == [game_id |-> GameId, name |-> name]

\* new_id is the value uuid4().hex[:8] gives
_create_collection(args, new_id) ==
    /\ CanCall
    /\ UNCHANGED <<now, save, dirs, store, safety>>
    /\ LET f == Frame("_create_collection", args, "none")
           cleaned == Strip(args.name, {" "})
           collections == _get_game_collections(config)
           same == {i \in 1..Len(collections) :
                       LowerStr(collections[i].name) = LowerStr(cleaned)}
           first == CHOOSE i \in same : \A j \in same : i <= j
       IN IF cleaned = <<>>
          THEN ReturnConfig(f, CollectionId(<<>>), config)
          ELSE IF same # {}
          THEN ReturnConfig(f, CollectionId(collections[first].id), collections)
          ELSE ReturnConfig(f, CollectionId(new_id),
                            Append(collections, [id |-> new_id, name |-> cleaned]))

RenameCollectionArgs(collection_id, new_name) ==
    [game_id |-> GameId, collection_id |-> collection_id, new_name |-> new_name]

_rename_collection(args) ==
    /\ CanCall
    /\ UNCHANGED <<now, save, dirs, store, safety>>
    /\ LET f == Frame("_rename_collection", args, "none")
           cleaned == Strip(args.new_name, {" "})
           collections == _get_game_collections(config)
           taken == \E i \in 1..Len(collections) :
                       /\ collections[i].id # args.collection_id
                       /\ LowerStr(collections[i].name) = LowerStr(cleaned)
           found == {i \in 1..Len(collections) : collections[i].id = args.collection_id}
           first == CHOOSE i \in found : \A j \in found : i <= j
       IN IF cleaned = <<>>
          THEN ReturnConfig(f, Fail, config)
          ELSE IF taken \/ found = {}
          THEN ReturnConfig(f, Fail, collections)
          ELSE ReturnConfig(f, Ok, [collections EXCEPT ![first].name = cleaned])

DeleteCollectionArgs(collection_id) == [game_id |-> GameId, collection_id |-> collection_id]

\* the list without the entries of that id
WithoutId(collections, collection_id) ==
    LET Kept(c) == c.id # collection_id
    IN SelectSeq(collections, Kept)

\* a deletion that does not set the default collection apart
DeleteAnyCollection(args, fault) ==
    /\ CanCall
    /\ UNCHANGED <<now, save, dirs, store, safety>>
    /\ LET f == Frame("_delete_collection", args, fault)
       IN IF ~_collection_is_empty(store, dirs, args.collection_id)
          THEN ReturnConfig(f, Fail, config)
          ELSE ReturnConfig(f, Ok,
                   WithoutId(_get_game_collections(config), args.collection_id))

\* with fault "stat" the listing _collection_is_empty asks for raises
_delete_collection(args, fault) ==
    /\ CanCall
    /\ UNCHANGED <<now, save, dirs, store, safety>>
    /\ LET f == Frame("_delete_collection", args, fault)
           game_backup_dirs == _find_game_backup_dirs(dirs, GameId)
           items == {p \in DOMAIN store : p.dir \in game_backup_dirs}
       IN IF args.collection_id = DefaultId
          THEN ReturnConfig(f, Fail, config)
          ELSE IF fault = "stat" /\ items # {}
          THEN ReturnConfig(f, Raised, config)
          ELSE IF ~_collection_is_empty(store, dirs, args.collection_id)
          THEN ReturnConfig(f, Fail, config)
          ELSE ReturnConfig(f, Ok,
                   WithoutId(_get_game_collections(config), args.collection_id))

(***************************************************************************)
(* Specifications.  In Spec and SpecRet every call runs without an I/O      *)
(* failure; in SpecR, SpecF and SpecN a call may meet one.                 *)
(***************************************************************************)
\* the retention limits callers pass are 1..MaxLimit
MaxLimit == 1
\* SpecRet, SpecR, SpecF and SpecN make at most MaxShortCalls calls
MaxShortCalls == 3

Collections == {<<>>, <<"c">>}
DisplayNames == {<<"n", " ">>}
RetentionLimits == {IntLimit(n) : n \in 1..MaxLimit}
\* retention off, or on with a limit
RetentionChoices == {<<FALSE, NoneLimit>>} \cup {<<TRUE, l>> : l \in RetentionLimits}
RenameCollections == {NotGiven, Given(<<"c">>)}

BackupFaults == {"mkdir", "dir_rename", "hash", "latest_stat", "latest_read",
                 "write", "retain_stat", "retain_read", "retain_delete"}
RenameFaults == {"meta_read", "read_src", "write_tmp", "replace", "write_meta"}
RestoreFaults == {"copy", "rmtree", "extract"}

BackupCalls ==
    {BackupArgs(n, force, <<>>, c, r[1], r[2]) :
        n \in GameNames, force \in BOOLEAN, c \in Collections,
        r \in RetentionChoices}

\* every backup enforces retention
RetainedBackupCalls == {a \in BackupCalls : a.retention_enabled}

\* backups into the default collection
DefaultBackupCalls == {a \in BackupCalls : a.collection_id = <<>>}

\* backups as the main window starts them: no retention arguments
PlainBackupCalls == {a \in DefaultBackupCalls : ~a.retention_enabled}

\* the automatic backup: never forced
AutoBackupCalls == {a \in PlainBackupCalls : ~a.force}

\* the callers: each starts a call while fewer than `budget` calls were made
BackupCall(args, faults, budget) ==
    /\ calls < budget
    /\ \E a \in args, fault \in faults : BackupStart(a, fault)

RenameCall(faults, budget) ==
    /\ calls < budget
    /\ \E p \in CallerPaths, d \in DisplayNames, c \in RenameCollections,
          fault \in faults :
          RenameStart(RenameArgs(p, d, c), fault)

RestoreCall(faults, budget) ==
    /\ calls < budget
    /\ \E p \in CallerPaths, fault \in faults : RestoreStart(RestoreArgs(p), fault)

DeleteCall(faults, budget) ==
    /\ calls < budget
    /\ \E p \in CallerPaths, fault \in faults : delete_backup(DeleteArgs(p), fault)

ListCall(faults, budget) ==
    /\ calls < budget
    /\ \E fault \in faults : get_backups(fault)

\* backups, renames and deletions, none of them failing
Next ==
    \/ Tick
    \/ ModifySave({SaveOf(t) : t \in Trees})
    \/ BackupCall(BackupCalls, {"none"}, MaxCalls)
    \/ BackupWrite
    \/ BackupRetain
    \/ RenameCall({"none"}, MaxCalls)
    \/ RenameRewrite
    \/ RenameReplace
    \/ DeleteCall({"none"}, MaxCalls)

Spec == Init /\ [][Next]_vars

\* as Next, and every backup enforces retention
NextRet ==
    \/ Tick
    \/ ModifySave({SaveOf(t) : t \in Trees})
    \/ BackupCall(RetainedBackupCalls, {"none"}, MaxShortCalls)
    \/ BackupWrite
    \/ BackupRetain
    \/ RenameCall({"none"}, MaxShortCalls)
    \/ RenameRewrite
    \/ RenameReplace
    \/ DeleteCall({"none"}, MaxShortCalls)

SpecRet == Init /\ [][NextRet]_vars

\* backups and restores; the game may also empty or remove its save directory,
\* and a restore may meet an I/O failure
NextR ==
    \/ Tick
    \/ ModifySave({NoSave, SaveOf(EmptyTree), SaveOf(TreeM)})
    \/ BackupCall(AutoBackupCalls, {"none"}, MaxShortCalls)
    \/ BackupWrite
    \/ BackupRetain
    \/ RestoreCall({"none"} \cup RestoreFaults, MaxShortCalls)
    \/ RestoreCopy
    \/ RestoreRmtree
    \/ RestoreExtract

SpecR == Init /\ [][NextR]_vars

\* backups, deletions and listings of an unchanging save tree, each of which
\* may meet an I/O failure
NextF ==
    \/ Tick
    \/ BackupCall(DefaultBackupCalls, {"none"} \cup BackupFaults, MaxShortCalls)
    \/ BackupWrite
    \/ BackupRetain
    \/ BackupCleanup
    \/ DeleteCall({"none", "delete"}, MaxShortCalls)
    \/ ListCall({"none", "stat"}, MaxShortCalls)

SpecF == Init /\ [][NextF]_vars

\* backups and renames; a rename may meet an I/O failure
NextN ==
    \/ Tick
    \/ ModifySave({SaveOf(t) : t \in Trees})
    \/ BackupCall(AutoBackupCalls, {"none"}, MaxShortCalls)
    \/ BackupWrite
    \/ BackupRetain
    \/ RenameCall({"none"} \cup RenameFaults, MaxShortCalls)
    \/ RenameRewrite
    \/ RenameReplace
    \/ RenameFailed

SpecN == Init /\ [][NextN]_vars

\* every operation, within one second, on a save directory that may be missing
\* and on container paths that may be stale; a call may meet an I/O failure at
\* its first step
NextV ==
    \/ ModifySave({NoSave})
    \/ BackupCall(AutoBackupCalls, {"none", "mkdir", "dir_rename"}, MaxShortCalls)
    \/ BackupWrite
    \/ BackupRetain
    \/ RenameCall({"none", "meta_read"}, MaxShortCalls)
    \/ RenameRewrite
    \/ RenameReplace
    \/ DeleteCall({"none", "delete"}, MaxShortCalls)
    \/ RestoreCall({"none"}, MaxShortCalls)
    \/ RestoreCopy
    \/ RestoreRmtree
    \/ RestoreExtract

SpecV == Init /\ [][NextV]_vars

\* game names: plain, with characters the folder name drops, and one of which
\* nothing is left
MigrationNames == {<<"A", "!">>, <<"-", "b", " ", " ", "a", "_">>, <<"!">>}

MigrationBackupCalls ==
    {BackupArgs(n, force, <<>>, <<>>, FALSE, NoneLimit) :
        n \in MigrationNames, force \in BOOLEAN}

ResolveCall(names, faults, budget) ==
    /\ calls < budget
    /\ \E n \in names, fault \in faults : ResolveDir(ResolveArgs(n), fault)

\* backups under several game names, and resolutions of the backup directory
NextM ==
    \/ Tick
    \/ BackupCall(MigrationBackupCalls, {"none"}, MaxShortCalls)
    \/ BackupWrite
    \/ BackupRetain
    \/ ResolveCall(MigrationNames, {"none"}, MaxShortCalls)

SpecM == Init /\ [][NextM]_vars

\* source trees that differ by a file, a path or a content
HashTrees ==
    {EmptyTree, TreeA, TreeB, TreeM,
     (<<"a">> :> <<"b", "x">>),
     (<<"a", "b">> :> <<"x">>),
     (<<"a">> :> <<>>) @@ (<<"b">> :> <<"x">>),
     (<<"b">> :> <<"x">>) @@ (<<"a", "/", "b">> :> <<"y">>) @@ (<<"a">> :> <<"x">>)}
\* number of hash computations in one behaviour of SpecH
MaxHashCalls == 3

\* the save tree changes and is hashed
NextH ==
    \/ ModifySave({SaveOf(t) : t \in HashTrees})
    \/ HashCall(MaxHashCalls)

SpecH == Init /\ [][NextH]_vars

\* backups under several game names, into several directories, and listings
NextL ==
    \/ Tick
    \/ BackupCall(MigrationBackupCalls, {"none"}, MaxShortCalls)
    \/ BackupWrite
    \/ BackupRetain
    \/ ListCall({"none"}, MaxShortCalls)

SpecL == Init /\ [][NextL]_vars

\* the names and ids of the collection dialog: a blank name, the default
\* collection's name in lower case, and two new names
CollectionNames == {<<" ">>, <<"m", "a", "i", "n">>, <<"N">>, <<"n", " ">>}
NewIds == {<<"c">>, <<"e">>}
CollectionIds == {DefaultId} \cup NewIds

\* forced backups into the default collection and into collection "c"
CollectionBackupCalls == {a \in BackupCalls : a.force /\ ~a.retention_enabled}

CreateCollectionCall(budget) ==
    /\ calls < budget
    /\ \E name \in CollectionNames, new_id \in NewIds :
          _create_collection(CreateCollectionArgs(name), new_id)

RenameCollectionCall(budget) ==
    /\ calls < budget
    /\ \E id \in CollectionIds, name \in CollectionNames :
          _rename_collection(RenameCollectionArgs(id, name))

DeleteCollectionCall(faults, budget) ==
    /\ calls < budget
    /\ \E id \in CollectionIds, fault \in faults :
          _delete_collection(DeleteCollectionArgs(id), fault)

\* the collection dialog next to backups into the collections
NextC ==
    \/ BackupCall(CollectionBackupCalls, {"none"}, MaxCalls)
    \/ BackupWrite
    \/ BackupRetain
    \/ CreateCollectionCall(MaxCalls)
    \/ RenameCollectionCall(MaxCalls)
    \/ DeleteCollectionCall({"none", "stat"}, MaxCalls)

SpecC == Init /\ [][NextC]_vars

\* backups with and without force into both collections, without retention
DedupBackupCalls == {a \in BackupCalls : ~a.retention_enabled}

\* the dedup check among backups and deletions; a backup may find the
\* metadata of the latest container unreadable
NextD ==
    \/ Tick
    \/ ModifySave({SaveOf(TreeA), SaveOf(TreeB)})
    \/ BackupCall(DedupBackupCalls, {"none", "latest_read"}, MaxShortCalls)
    \/ BackupWrite
    \/ BackupRetain
    \/ DeleteCall({"none"}, MaxShortCalls)

SpecD == Init /\ [][NextD]_vars

\* SpecT lets the clock reach MaxLateTime, one more than two backups need
MaxLateTime == 3

LateTick ==
    /\ CanCall
    /\ now < MaxLateTime
    /\ now' = now + 1
    /\ UNCHANGED <<save, dirs, store, safety, op, last, calls, config, bg, cm>>

\* automatic backups with renames and deletions of earlier containers in
\* between, over three seconds
NextT ==
    \/ LateTick
    \/ ModifySave({SaveOf(TreeA), SaveOf(TreeB)})
    \/ BackupCall(AutoBackupCalls, {"none"}, MaxCalls)
    \/ BackupWrite
    \/ BackupRetain
    \/ RenameCall({"none"}, MaxCalls)
    \/ RenameRewrite
    \/ RenameReplace
    \/ DeleteCall({"none"}, MaxCalls)

SpecT == Init /\ [][NextT]_vars

\* the limits a caller hands to retention: None, 1, 0, -1, "1", "x", "" and []
LimitValues ==
    {NoneLimit, IntLimit(1), IntLimit(0), IntLimit(-1), StrLimit(<<"1">>),
     StrLimit(<<"x">>), StrLimit(<<>>), ListLimit}

\* forced backups into the default collection with retention enabled
LimitBackupCalls ==
    {BackupArgs(n, TRUE, <<>>, <<>>, TRUE, l) : n \in GameNames, l \in LimitValues}

\* forced backups, each followed by a retention run with any of the limits
NextRL ==
    \/ Tick
    \/ BackupCall(LimitBackupCalls, {"none"}, MaxShortCalls)
    \/ BackupWrite
    \/ BackupRetain

SpecRL == Init /\ [][NextRL]_vars

\* backups with retention switched off, whatever limit comes with them
OffBackupCalls ==
    {BackupArgs(n, force, <<>>, <<>>, FALSE, l) :
        n \in GameNames, force \in BOOLEAN, l \in LimitValues}

\* backups without retention; the archive write may fail
NextO ==
    \/ Tick
    \/ BackupCall(OffBackupCalls, {"none", "write"}, MaxShortCalls)
    \/ BackupWrite
    \/ BackupRetain
    \/ BackupCleanup

SpecO == Init /\ [][NextO]_vars

\* resolutions that may fail to rename or to create, between backups under
\* several game names
NextG ==
    \/ Tick
    \/ BackupCall(MigrationBackupCalls, {"none"}, MaxShortCalls)
    \/ BackupWrite
    \/ BackupRetain
    \/ ResolveCall(MigrationNames, {"none", "dir_rename", "mkdir"}, MaxShortCalls)

SpecG == Init /\ [][NextG]_vars

\* trees of one and two files, the files of up to two bytes
UnreadableTrees ==
    {TreeA, (<<"a">> :> <<"x", "y">>) @@ (<<"b">> :> <<"x">>), (<<"b">> :> <<"x">>)}

\* the save tree changes and is hashed while some files cannot be read
NextU ==
    \/ ModifySave({SaveOf(t) : t \in UnreadableTrees})
    \/ HashCallUnreadable(MaxCalls)

SpecU == Init /\ [][NextU]_vars

\* two automatic backups of the same tree, one on each thread
NextX ==
    \/ Tick
    \/ BackupCall(AutoBackupCalls, {"none"}, MaxShortCalls)
    \/ BackupWrite
    \/ BackupRetain
    \/ \E a \in AutoBackupCalls : BgStart(a)
    \/ BgWrite
    \/ BgRetain

SpecX == Init /\ [][NextX]_vars

(***************************************************************************)
(* Properties.                                                             *)
(***************************************************************************)
Containers(st) == {p \in DOMAIN st : IsContainerPath(p)}

\* the store the call in progress (or starting in this step) started from
PreStore == IF op = Idle THEN store ELSE op.pre

\* this step is the return of a call of the given method
(***************************************************************************)
(* The configuration manager (src/core/config_manager.py).                 *)
(*                                                                         *)
(* A dictionary holds its list value by reference.  DefaultList names the  *)
(* list object of DEFAULT_CONFIG["user_games"], whose content is           *)
(* cm.default_games; OwnList names the list json.load made for the         *)
(* dictionary in cm.held, whose content is cm.own_games.  cm.file is the   *)
(* JSON value in config.json, <<>> while there is no file.                 *)
(***************************************************************************)
DefaultList == "default"
OwnList == "own"

\* lines 11-17
DEFAULT_CONFIG ==
    [backup_directory |-> <<>>, max_backups |-> 10, user_games |-> DefaultList,
     theme |-> <<"dark">>, first_run |-> TRUE]

\* the values lines 11-17 spell out
BuiltInDefaults == [DEFAULT_CONFIG EXCEPT !.user_games = <<>>]

\* the value a dictionary has: its list reference followed
ValueOf(d, c) ==
    [d EXCEPT !.user_games = IF @ = DefaultList THEN c.default_games ELSE c.own_games]

\* json.dump(config, f, indent=2) followed by json.load(f): the value, in
\* objects of its own
Saved(d, c) == ValueOf(d, c)

Loaded(value) == [kind |-> "config", success |-> TRUE, value |-> value]

Bool(b) == [kind |-> "bool", success |-> b]

\* a call of the configuration manager returns res and leaves c behind
ReturnCm(f, res, c) ==
    /\ op' = Idle
    /\ calls' = calls + 1
    /\ cm' = c
    /\ UNCHANGED <<now, save, dirs, store, safety, config, bg>>
    /\ last' = [name |-> f.name, args |-> f.args, fault |-> f.fault,
                save |-> f.preSave, result |-> res, loc |-> f.loc]

\* lines 45-55: DEFAULT_CONFIG.copy() is a new dictionary with the same list
\* object; config.update(saved) rebinds every key of the file
LoadedDict(c, fault) ==
    IF c.file # <<>> /\ fault = "none"
    THEN [held |-> [c.file EXCEPT !.user_games = OwnList], own_games |-> c.file.user_games]
    ELSE [held |-> DEFAULT_CONFIG, own_games |-> c.own_games]

\* load_config(), lines 39-55; the caller keeps the dictionary
load_config(fault) ==
    /\ CanCall
    /\ fault = "json" => cm.file # <<>>
    /\ LET l == LoadedDict(cm, fault)
           c == [cm EXCEPT !.held = l.held, !.own_games = l.own_games]
       IN ReturnCm(Frame("load_config", <<>>, fault), Loaded(ValueOf(l.held, c)), c)

\* save_config(config) of the dictionary the caller holds, lines 57-72
save_config ==
    /\ CanCall
    /\ cm.held # <<>>
    /\ ReturnCm(Frame("save_config", cm.held, "none"), Bool(TRUE),
                [cm EXCEPT !.file = Saved(cm.held, cm)])

ConfigSettings == {<<"max_backups", 5>>, <<"first_run", FALSE>>}

\* set(key, value), lines 97-99, on a dictionary of its own
set(key, value) ==
    /\ CanCall
    /\ LET l == LoadedDict(cm, "none")
           c == [cm EXCEPT !.own_games = l.own_games]
           config_ == [l.held EXCEPT ![key] = value]
       IN ReturnCm(Frame("set", <<key, value>>, "none"), Bool(TRUE),
                   [cm EXCEPT !.file = Saved(config_, c)])

\* reset(), line 107
reset ==
    /\ CanCall
    /\ ReturnCm(Frame("reset", <<>>, "none"), Bool(TRUE),
                [cm EXCEPT !.file = Saved(DEFAULT_CONFIG, cm)])

\* the games a caller adds
MaxGames == 2

UserGames == {[id |-> GameId], [id |-> <<"h">>]}

\* self.user_games.append(dialog.result) on the list of the dictionary held
\* (src/ui/main_window.py 955)
AppendGame(game) ==
    /\ CanCall
    /\ cm.held # <<>>
    /\ Len(ValueOf(cm.held, cm).user_games) < MaxGames
    /\ cm' = IF cm.held.user_games = DefaultList
             THEN [cm EXCEPT !.default_games = Append(@, game)]
             ELSE [cm EXCEPT !.own_games = Append(@, game)]
    /\ UNCHANGED <<now, save, dirs, store, safety, op, last, calls, config, bg>>

\* self.config[key] = value on the dictionary held
SetHeld(key, value) ==
    /\ CanCall
    /\ cm.held # <<>>
    /\ cm.held[key] # value
    /\ cm' = [cm EXCEPT !.held[key] = value]
    /\ UNCHANGED <<now, save, dirs, store, safety, op, last, calls, config, bg>>

\* config.json is removed
RemoveConfigFile ==
    /\ CanCall
    /\ cm.file # <<>>
    /\ cm' = [cm EXCEPT !.file = <<>>]
    /\ UNCHANGED <<now, save, dirs, store, safety, op, last, calls, config, bg>>

NextK ==
    \/ \E fault \in {"none", "json"} : load_config(fault)
    \/ save_config
    \/ \E kv \in ConfigSettings : set(kv[1], kv[2])
    \/ reset
    \/ \E game \in UserGames : AppendGame(game)
    \/ \E kv \in ConfigSettings : SetHeld(kv[1], kv[2])
    \/ RemoveConfigFile

SpecK == Init /\ [][NextK]_vars

(***************************************************************************)
(* A library of several games that share one backup_root.                  *)
(***************************************************************************)
\* ids of other games of the library: one that ends in "__" followed by GameId,
\* and one that has nothing in common with it
OtherGameIds == {<<"x", "_", "_", "g">>, <<"h">>}

\* the directories _resolve_game_backup_dir can give a game (lines 110-112)
DirsOfGame(game_id) ==
    {LegacyDir(game_id)} \cup {PreferredDir(game_id, n) : n \in MigrationNames}

\* backup_game(game_id, game_name, save_path, force=True) of another game,
\* lines 165-250 without a failure
BackupOtherGame(game_id, game_name, budget) ==
    /\ CanCall
    /\ calls < budget
    /\ save.exists
    /\ UNCHANGED <<now, save, safety>>
    /\ LET args == BackupArgs(game_name, TRUE, <<>>, <<>>, FALSE, NoneLimit)
           f == Frame("backup_game_other",
                      [game_id |-> game_id, game_name |-> game_name], "none")
           r == _resolve_game_backup_dir(dirs, store, game_id, game_name, "none")
           loc == [pc |-> "done", zip_path |-> PathOf(r.dir, now, "zip"),
                   current_hash |-> _compute_folder_hash(save.files)]
           metadata == [BackupMetadata(args, loc, now) EXCEPT
                           !.game_id = game_id, !.backup_name = <<game_id, now>>]
       IN /\ dirs' = r.dirs
          /\ store' = Put(r.store, loc.zip_path,
                          WrittenArchive(save.files, metadata, now))
          /\ Return(f, Created(loc.zip_path))

NextI ==
    \/ Tick
    \/ BackupCall(MigrationBackupCalls, {"none"}, MaxShortCalls)
    \/ BackupWrite
    \/ BackupRetain
    \/ \E h \in OtherGameIds, n \in MigrationNames : BackupOtherGame(h, n, MaxShortCalls)
    \/ ListCall({"none"}, MaxShortCalls)

SpecI == Init /\ [][NextI]_vars


Returns(name) == calls' = calls + 1 /\ last'.name = name

\* the containers of the game, over all of its directories, tagged collection_id
GameCollection(st, ds, collection_id) ==
    UNION {CollectionBackups(st, d, collection_id, TRUE) :
              d \in _find_game_backup_dirs(ds, GameId)}

\* C1 (as claimed): after a successful backup without force, and with the save
\* tree unchanged, the next backup with the same game id, name and path and
\* without force returns success and skipped, and the set of containers is the
\* same before and after it.
C1_DedupIdempotence ==
    [][(/\ Returns("backup")
        /\ ~last'.args.force
        /\ last.name = "backup"
        /\ ~last.args.force
        /\ last.result.success
        /\ last.args.game_name = last'.args.game_name
        /\ last.save = last'.save)
       => (/\ last'.result.success
           /\ last'.result.skipped
           /\ Containers(store') = Containers(PreStore))]_vars

\* the containers of collection_id in directory d, as the retention run counts them
InCollection(st, d, collection_id) == CollectionBackups(st, d, collection_id, TRUE)

Min(a, b) == IF a < b THEN a ELSE b

\* the retention bound for the backup that returns in this step: before and
\* after are the containers of its collection before and after the step
RetentionBoundHere(before, after, limit) ==
    /\ Cardinality(after) = Min(limit, Cardinality(before))
    /\ after \subseteq before
    /\ \A kept \in after : \A gone \in before \ after :
          store[gone].mtime <= store[kept].mtime

FileEntries(entries) ==
    LET idx == {i \in 1..Len(entries) : entries[i].name = BackupInfoName}
        rec == IF idx = {} THEN 0 ELSE CHOOSE i \in idx : \A j \in idx : j <= i
    IN {[name |-> entries[i].name, data |-> entries[i].data] :
           i \in (1..Len(entries)) \ {rec}}

\* the record of a container
RecordOf(p, c) == ReadMetadata(p, c)

\* the records old and new agree on every field outside `changed`
SameBut(old, new, changed) ==
    /\ DOMAIN old \ changed = DOMAIN new \ changed
    /\ \A k \in DOMAIN old \ changed : old[k] = new[k]

\* C5 (as claimed): a successful rename_backup changes only display_name and,
\* when a collection_id is given, collection_id of the record; every other
\* field of the record and the file entries with their bytes stay as they were.
C5_RenamePreservesRecord ==
    [][(Returns("rename") /\ last'.result.success)
       => LET p == last'.args.path
              changed == IF last'.args.collection_id.given
                         THEN {"display_name", "collection_id"}
                         ELSE {"display_name"}
          IN /\ SameBut(RecordOf(p, PreStore[p]), RecordOf(p, store'[p]), changed)
             /\ FileEntries(PreStore[p].entries) = FileEntries(store'[p].entries)]_vars

\* C7 (as claimed): a container keeps its file entries until delete_backup or a
\* retention eviction removes it, and the WRITE step of backup_game creates its
\* container at a path that held none, adding exactly one container.
C7_WriteNeverOverwrites ==
    [][/\ (op.name = "backup" /\ op.loc.pc = "write")
          => /\ op.loc.zip_path \notin DOMAIN store
             /\ Cardinality(Containers(store')) = Cardinality(Containers(store)) + 1
       /\ \A p \in Containers(store) :
             \/ \E q \in Containers(store') :
                   /\ q.ts = p.ts
                   /\ q.ext = p.ext
                   /\ FileEntries(store'[q].entries) = FileEntries(store[p].entries)
             \/ Returns("delete") /\ last'.args.path = p
             \/ Returns("backup") /\ p \in last'.loc.evicted]_vars

\* C3: while restore_backup runs on a target that exists, the target's files
\* change only once a complete copy of them, made by this call, lies beside it;
\* and a call that ends in the copy step returns success=false with the target
\* as it was before the call.
C3_SafetyCopyFirst ==
    [][(op.name = "restore" /\ op.preSave.exists)
       => /\ save' # save
             => \E t \in DOMAIN safety' \ DOMAIN op.preSafety :
                   safety'[t] = op.preSave.files
          /\ (op.loc.pc = "copy" /\ Returns("restore"))
             => /\ last'.result = Fail
                /\ save' = op.preSave]_vars

\* a restore over an existing, different save tree has succeeded, and the tree
\* it replaced lies in the safety copy
C3_Witness ==
    /\ last.name = "restore"
    /\ last.result.success
    /\ last.save.exists
    /\ last.save.files # EmptyTree
    /\ save # last.save
    /\ now \in DOMAIN safety
    /\ safety[now] = last.save.files

\* C4: while rename_backup rewrites an archive, the archive's path holds a
\* closed archive, the old one or the rewritten one; a rename that met a
\* failure reading the source, writing the temporary file or replacing returns
\* success=false, with the archive as it was before the call and the temporary
\* file removed.
C4_RenameAtomicity ==
    [][op.name = "rename"
       => LET p == op.args.path
          IN /\ p \in DOMAIN store'
             /\ store'[p].closed
             /\ \/ store'[p] = op.pre[p]
                \/ store'[p] = RewrittenArchive(op.pre[p], op.loc.metadata,
                                                store'[p].mtime)
             /\ (op.fault \in {"read_src", "write_tmp", "replace"}
                    /\ calls' = calls + 1)
                => ~last'.result.success
             /\ (calls' = calls + 1 /\ ~last'.result.success)
                => /\ last'.result = Fail
                   /\ store'[p] = op.pre[p]
                   /\ op.loc.tmp_path \notin DOMAIN store']_vars

\* a rename has failed while writing the temporary file; the archive is there
C4_Witness ==
    /\ last.name = "rename"
    /\ last.fault = "write_tmp"
    /\ ~last.result.success
    /\ last.args.path \in DOMAIN store
    /\ store[last.args.path].closed

\* C6 (as claimed): a successful backup_game followed by a successful
\* restore_backup of the archive it created, into an empty or absent target,
\* leaves the target with exactly the paths and bytes of the tree backed up.
C6_RoundTrip ==
    [][(/\ Returns("restore")
        /\ last'.result.success
        /\ last.name = "backup"
        /\ last.result.success
        /\ last.result.path = <<last'.args.path>>
        /\ op.name = "restore"
        /\ (~op.preSave.exists \/ op.preSave.files = EmptyTree))
       => (save'.exists /\ save'.files = last.save.files)]_vars

\* C8 (as claimed): every call of a public operation returns a result with a
\* success flag; none ends in an exception.
C8_NothingThrown ==
    last.name # "none" => last.result.kind = "dict"

\* C9 (as claimed): when backup_game returns success=false after reaching the
\* WRITE step, nothing lies at the path it was writing, and every container
\* that existed before the call is still there with the same contents.
C9_WriteFailureCleanup ==
    [][(/\ Returns("backup")
        /\ ~last'.result.success
        /\ op.name = "backup"
        /\ op.loc.pc = "cleanup")
       => /\ op.loc.zip_path \notin DOMAIN store'
          /\ \A p \in Containers(op.pre) :
                \E q \in Containers(store') :
                   /\ q.ts = p.ts
                   /\ q.ext = p.ext
                   /\ store'[q] = op.pre[p]]_vars

\* C10 (as claimed): once the archive is written, the retention step ends in
\* the return of success=true with the new container's path, and the new
\* container is still there as written.
C10_EvictionErrorsIgnored ==
    [][(op.name = "backup" /\ op.loc.pc = "retain")
       => /\ Returns("backup")
          /\ last'.result = Created(op.loc.zip_path)
          /\ op.loc.zip_path \in DOMAIN store'
          /\ store'[op.loc.zip_path] = store[op.loc.zip_path]]_vars

\* the call that returns in this step failed validation: backup_game of a
\* source path that does not exist, or another operation on a missing container
ValidationFails ==
    /\ calls' = calls + 1
    /\ op = Idle
    /\ \/ last'.name = "backup" /\ ~save.exists
       \/ last'.name \in {"restore", "rename", "delete"}
          /\ last'.args.path \notin DOMAIN store

\* C11: a call that fails validation returns success=false as a result (not an
\* exception) and leaves the backup root (directories, containers, temporary
\* files), the restore target and its safety copies exactly as they were.
C11_ValidationNoSideEffects ==
    [][ValidationFails
       => /\ last'.result = Fail
          /\ UNCHANGED <<dirs, store, save, safety>>]_vars

\* backup_game of a missing source has returned while only the legacy directory
\* exists, which a resolution would have renamed
C11_Witness ==
    /\ last.name = "backup"
    /\ ~last.save.exists
    /\ ~last.result.success
    /\ dirs = {LegacyDir(GameId)}
    /\ store # <<>>

\* the paths of st with directory `from` renamed to `to`
Moved(st, from, to) == {[p EXCEPT !.dir = to] : p \in {q \in DOMAIN st : q.dir = from}}

\* C12: from a root that holds only the legacy directory, the first resolution
\* with a name that sanitizes to something returns {sanitized}__{game_id},
\* which then holds exactly what the legacy directory held, and the legacy
\* directory is gone; a second resolution with the same arguments returns the
\* same directory and changes nothing.
C12_MigrationIdempotent ==
    [][Returns("resolve")
       => LET name == last'.args.game_name
              safe == _sanitize_folder_name(name)
              preferred == safe \o <<"_", "_">> \o GameId
          IN /\ (dirs = {GameId} /\ safe # <<>>)
                => /\ last'.result = Resolved(preferred)
                   /\ dirs' = {preferred}
                   /\ DOMAIN store' = Moved(store, GameId, preferred)
                   /\ \A p \in DOMAIN store :
                         store'[[p EXCEPT !.dir = preferred]] = store[p]
             /\ (last.name = "resolve" /\ last.args = last'.args
                    /\ last.result.kind = "path")
                => /\ last'.result = last.result
                   /\ UNCHANGED <<dirs, store>>]_vars

\* a legacy directory with two containers has been migrated by a resolution
C12_Witness ==
    /\ last.name = "resolve"
    /\ calls = 3
    /\ last.result = Resolved(<<"b", "_", "a", "_", "_", "g">>)
    /\ dirs = {<<"b", "_", "a", "_", "_", "g">>}
    /\ Cardinality(DOMAIN store) = 2

\* C13 (as claimed): two trees that differ in their (relative path, bytes)
\* pairs get different hashes from _compute_folder_hash.
C13_HashSensitivity ==
    [][(/\ Returns("hash")
        /\ last.name = "hash"
        /\ last.save.files # last'.save.files)
       => last'.result.hash # last.result.hash]_vars

\* C14: two computations of the hash of the same tree give the same hash,
\* whatever the order in which each traversal enumerated the files.
C14_HashDeterminism ==
    [][(/\ Returns("hash")
        /\ last.name = "hash"
        /\ last.save.files = last'.save.files)
       => last'.result.hash = last.result.hash]_vars

\* a tree of three files was hashed from a traversal in descending path order
C14_Witness ==
    /\ last.name = "hash"
    /\ last.loc.walk = <<<<"b">>, <<"a", "/", "b">>, <<"a">>>>
    /\ last.result.hash =
          <<"sha256", <<"a", "x", "a", "/", "b", "y", "b", "x">>>>

\* C15: get_backups returns the records of the listed containers of all of the
\* game's directories, each once, as one sequence in which a container never
\* comes after one that is older, whatever their directories.
C15_CatalogOrder ==
    [][(Returns("get_backups") /\ last'.result.kind = "list")
       => LET items == last'.result.items
              listed == {p \in DOMAIN store :
                            /\ p.dir \in _find_game_backup_dirs(dirs, GameId)
                            /\ ListedRecord(p, store[p]) # <<>>}
          IN /\ {items[i].path : i \in 1..Len(items)} = listed
             /\ Len(items) = Cardinality(listed)
             /\ \A i \in 1..Len(items) : items[i] = ListedRecord(items[i].path,
                                                                 store[items[i].path])
             /\ \A i, j \in 1..Len(items) :
                   i < j => store[items[i].path].mtime >= store[items[j].path].mtime]_vars

\* a listing over two directories has returned the newer container, of one
\* directory, before the older one of the other
C15_Witness ==
    /\ last.name = "get_backups"
    /\ last.result.kind = "list"
    /\ Len(last.result.items) = 2
    /\ last.result.items[1].path.dir # last.result.items[2].path.dir
    /\ store[last.result.items[1].path].mtime > store[last.result.items[2].path].mtime

\* the step is the return of one of the three collection operations
CollectionOp ==
    /\ calls' = calls + 1
    /\ last'.name \in {"_create_collection", "_rename_collection", "_delete_collection"}

\* C16: the list of the game read through _get_game_collections always holds
\* an entry with id "default"; a create, rename or delete that changes the
\* stored list leaves an entry with id "default" in it; and
\* _delete_collection(game, "default") returns success = false and leaves the
\* stored list as it was.
C16_DefaultCollection ==
    [][/\ HasId(_get_game_collections(config'), DefaultId)
       /\ (CollectionOp /\ config' # config) => HasId(config', DefaultId)
       /\ (Returns("_delete_collection") /\ last'.args.collection_id = DefaultId)
            => (~last'.result.success /\ last'.result.kind = "dict" /\ config' = config)]_vars

\* the deletion of the default collection was refused while the stored list
\* held the default collection alone and the game had a backup
C16_Witness ==
    /\ last.name = "_delete_collection"
    /\ last.args.collection_id = DefaultId
    /\ ~last.result.success
    /\ Len(config) = 1
    /\ HasId(config, DefaultId)
    /\ \E p \in DOMAIN store : IsContainerPath(p)

\* a backup_game call starts in this step and passes validation and directory
\* resolution: it either returns at once or goes on to its next step
StartsBackup ==
    /\ op = Idle
    /\ op'.name = "backup" \/ Returns("backup")
    /\ save.exists
    /\ ~_resolve_game_backup_dir(dirs, store, GameId,
                                 (IF op' = Idle THEN last' ELSE op').args.game_name,
                                 (IF op' = Idle THEN last' ELSE op').fault).raised

\* the arguments and the fault of the call that starts in this step
StartedArgs == IF op' = Idle THEN last'.args ELSE op'.args
StartedFault == IF op' = Idle THEN last'.fault ELSE op'.fault

\* the directory the starting call resolves, and the store after resolution
StartedDir == _resolve_game_backup_dir(dirs, store, GameId, StartedArgs.game_name, StartedFault)

\* the container p records the hash of the save tree in readable metadata
RecordsCurrentHash(st, p) ==
    LatestHashOf(st, p, StartedFault # "latest_read") = _compute_folder_hash(save.files)

SkipsHere == op' = Idle /\ last'.result = Skipped
WritesHere == op'.name = "backup" /\ op'.loc.pc = "write" /\ store' = StartedDir.store

\* C17: a backup_game call returns skipped = true only if force is false and
\* a most recently modified container of the resolved directory, whatever its
\* collection, has readable metadata whose content_hash is the hash of the
\* source tree, and it does so whenever every most recently modified container
\* is such; with force = true, or when the metadata of the most recently
\* modified container is absent or unreadable or records another hash, or when
\* the directory holds no container, the call goes on to WRITE.
C17_DedupDecision ==
    [][StartsBackup =>
         LET st == StartedDir.store
             d == StartedDir.dir
             latest == IF BackupsIn(st, d) = {} THEN {}
                       ELSE {p \in BackupsIn(st, d) :
                                \A q \in BackupsIn(st, d) : st[q].mtime <= st[p].mtime}
         IN /\ SkipsHere \/ WritesHere
            /\ SkipsHere => /\ ~StartedArgs.force
                            /\ \E p \in latest : RecordsCurrentHash(st, p)
            /\ (/\ ~StartedArgs.force
                /\ latest # {}
                /\ \A p \in latest : RecordsCurrentHash(st, p)) => SkipsHere
            /\ (\/ StartedArgs.force
                \/ \A p \in latest : ~RecordsCurrentHash(st, p)) => WritesHere]_vars

\* a backup into the default collection was skipped against a latest container
\* of collection "c", while an older container records another hash
C17_Witness ==
    /\ last.name = "backup"
    /\ last.result = Skipped
    /\ last.args.collection_id = <<>>
    /\ \E p \in Containers(store) :
          /\ \A q \in Containers(store) \ {p} : store[q].mtime < store[p].mtime
          /\ _get_backup_collection_id(p, store[p], TRUE) = <<"c">>
          /\ \E q \in Containers(store) :
                LatestHashOf(store, q, TRUE) # LatestHashOf(store, p, TRUE)

\* the containers of the game that carry a readable BackupRecord
Recorded(st, ds) ==
    {p \in Containers(st) : /\ p.dir \in _find_game_backup_dirs(ds, GameId)
                            /\ Truthy(ReadMetadata(p, st[p]))
                            /\ "backup_time" \in DOMAIN ReadMetadata(p, st[p])}

\* backup_time is an ISO timestamp; its order is the order of the clock values
BackupTime(st, p) == ReadMetadata(p, st[p])["backup_time"][2]

\* the containers whose record has the greatest backup_time
LatestRecords(st, ds) ==
    {p \in Recorded(st, ds) :
        \A q \in Recorded(st, ds) : BackupTime(st, q) <= BackupTime(st, p)}

\* no two containers of the store were modified in the same second
DistinctMtimes(st) ==
    \A p, q \in Containers(st) : p # q => st[p].mtime # st[q].mtime

\* C18: a backup_game call without force whose source-tree hash equals the
\* content_hash of the game's latest BackupRecord (greatest backup_time)
\* writes nothing and returns skipped = true, in every reachable state, also
\* after renames and deletions of older containers.  The formula asks this
\* only of states in which all containers have different modification times.
C18_DedupAgainstLatestRecord ==
    [][(/\ StartsBackup
        /\ ~StartedArgs.force
        /\ DistinctMtimes(StartedDir.store)
        /\ LatestRecords(StartedDir.store, StartedDir.dirs) # {}
        /\ \A p \in LatestRecords(StartedDir.store, StartedDir.dirs) :
              Get(ReadMetadata(p, StartedDir.store[p]), "content_hash", <<>>)
                 = _compute_folder_hash(save.files))
       => (SkipsHere /\ store' = StartedDir.store)]_vars

\* the retention run of a backup with retention enabled ends in this step
RetentionRuns ==
    /\ op.name = "backup"
    /\ op.loc.pc = "retain"
    /\ op.args.retention_enabled
    /\ Returns("backup")

\* the containers of the call's collection before and after the retention run
RetainedBefore == InCollection(store, op.loc.dir, op.args.collection_id)
RetainedAfter == InCollection(store', op.loc.dir, op.args.collection_id)

\* C19 (as claimed): with retention enabled, the retention run enforces the
\* caller's limit when it is a positive integer, enforces max_backups when the
\* limit is None or cannot be converted to an integer, and deletes nothing
\* when the resolved limit is zero or negative.
C19_LimitResolution ==
    [][RetentionRuns =>
         LET limit == op.args.retention_limit
             resolved == IF limit.kind = "none" \/ IntOf(limit) = <<>>
                         THEN max_backups ELSE IntOf(limit)[1]
         IN IF resolved <= 0 THEN store' = store
            ELSE RetentionBoundHere(RetainedBefore, RetainedAfter, resolved)]_vars

\* C19 (amended): with retention enabled, the retention run enforces the
\* caller's limit when int() converts it to a positive integer, enforces
\* max_backups when the limit is None, and deletes nothing when the limit
\* cannot be converted to an integer or the resolved limit is zero or negative.
C19_LimitResolutionNoFallback ==
    [][RetentionRuns =>
         LET limit == op.args.retention_limit
         IN IF limit.kind = "none"
            THEN RetentionBoundHere(RetainedBefore, RetainedAfter, max_backups)
            ELSE IF IntOf(limit) = <<>> THEN store' = store
            ELSE IF IntOf(limit)[1] <= 0 THEN store' = store
            ELSE RetentionBoundHere(RetainedBefore, RetainedAfter, IntOf(limit)[1])]_vars

\* three containers of the default collection are left after a retention run
\* with a limit that cannot be converted, one more than max_backups
C19_Witness ==
    /\ last.name = "backup"
    /\ last.args.retention_enabled
    /\ IntOf(last.args.retention_limit) = <<>>
    /\ last.args.retention_limit.kind # "none"
    /\ last.result.success
    /\ Cardinality(InCollection(store, last.loc.dir, <<>>)) > max_backups

\* the containers of the game that do not count for collection_id, by name,
\* with their contents
OtherCollections(st, collection_id) ==
    LET target_collection == IF Truthy(collection_id) THEN collection_id
                             ELSE <<"default">>
    IN {[ts |-> p.ts, ext |-> p.ext, container |-> st[p]] :
           p \in {q \in Containers(st) :
                     _get_backup_collection_id(q, st[q], TRUE) # target_collection}}

\* C20: a backup_game call made for collection C, its retention run included,
\* leaves the containers whose recorded collection_id is another collection
\* as they were: none is deleted and none is changed.
C20_RetentionTouchesOnlyTarget ==
    [][Returns("backup") =>
         OtherCollections(store', last'.args.collection_id)
            = OtherCollections(PreStore, last'.args.collection_id)]_vars

\* the names of the containers of a store; a migration moves them to another
\* directory and keeps their names
ContainerNames(st) == {[ts |-> p.ts, ext |-> p.ext] : p \in Containers(st)}

\* C21: a backup_game call with retention_enabled = false removes no
\* container, whatever retention_limit and max_backups are: every container
\* present before the call is present after it.
C21_RetentionOffRemovesNothing ==
    [][(Returns("backup") /\ ~last'.args.retention_enabled)
       => ContainerNames(PreStore) \subseteq ContainerNames(store')]_vars

\* the positions of the entries named _backup_info.json in a container
MetadataEntries(c) == {i \in 1..Len(c.entries) : c.entries[i].name = BackupInfoName}

\* the container holds exactly one entry named _backup_info.json, and that
\* entry is the serialized record
OneMetadataEntry(c, metadata) ==
    /\ Cardinality(MetadataEntries(c)) = 1
    /\ \A i \in MetadataEntries(c) : c.entries[i].json = Dumps(metadata)

\* C22: every container the WRITE step of backup_game closes, and every archive
\* rename_backup rewrites, contains exactly one entry named _backup_info.json,
\* the serialized BackupRecord, for every source tree, also one with a file
\* named _backup_info.json at its root.
C22_OneMetadataEntry ==
    [][/\ (op.name = "backup" /\ op.loc.pc = "write" /\ op'.name = "backup"
           /\ op'.loc.pc = "retain")
          => OneMetadataEntry(store'[op.loc.zip_path],
                              BackupMetadata(op.args, op.loc, now))
       /\ (op.name = "rename" /\ op.loc.pc = "rewrite" /\ op'.name = "rename"
           /\ op'.loc.pc = "replace")
          => OneMetadataEntry(store'[op.loc.tmp_path], op.loc.metadata)]_vars

\* the containers stored for the game in all of its directories, by name, with
\* their contents
GameContainers(st, ds) ==
    {[ts |-> p.ts, ext |-> p.ext, container |-> st[p]] :
        p \in {q \in Containers(st) : q.dir \in _find_game_backup_dirs(ds, GameId)}}

\* C23: whatever the outcome of _resolve_game_backup_dir (preferred directory
\* found, legacy directory renamed, rename failed and legacy directory
\* answered, new directory created), the containers stored for the game over
\* all of its directories are the same after the call as before it, none is
\* added or lost, and the directory the call returns exists.
C23_ResolutionKeepsContainers ==
    [][Returns("resolve")
       => /\ GameContainers(store', dirs') = GameContainers(store, dirs)
          /\ Cardinality(Containers(store')) = Cardinality(Containers(store))
          /\ \A p \in Containers(store') : p.dir \in dirs'
          /\ last'.result.kind = "path" => last'.result.path[1] \in dirs']_vars

\* the rename of a legacy directory that holds a container failed, and the
\* legacy directory was returned with the container still in it
C23_Witness ==
    /\ last.name = "resolve"
    /\ last.fault = "dir_rename"
    /\ last.result = Resolved(LegacyDir(GameId))
    /\ LegacyDir(GameId) \in dirs
    /\ BackupsIn(store, LegacyDir(GameId)) # {}

\* the step the backup_game call in progress is at; "start" covers VALIDATE,
\* the resolution of the directory, HASH and DEDUP_CHECK
BackupStep == IF op = Idle THEN "start" ELSE IF op.name = "backup" THEN op.loc.pc ELSE "other"

\* what becomes of the call in this step: the name of its next step, or "end"
BackupNext == IF op' = Idle THEN "end" ELSE op'.loc.pc

\* C24: a backup_game call passes through VALIDATE, HASH, DEDUP_CHECK, then
\* SKIP or WRITE, then RETAIN, then DONE, in this order; retention runs only
\* after an archive write that succeeded, never on a skipped or failed backup;
\* and the call ends in exactly one of validation failure, SKIP, write failure
\* and DONE.
C24_BackupStepOrder ==
    [][/\ (BackupStep = "start" /\ (Returns("backup") \/ op'.name = "backup"))
          => \/ BackupNext = "end" /\ ~save.exists /\ last'.result = Fail
             \/ BackupNext = "end" /\ save.exists /\ last'.result = Skipped
             \/ BackupNext = "write" /\ save.exists
       /\ BackupStep = "write"
          => \/ /\ BackupNext = "retain"
                /\ op.fault # "write"
                /\ store'[op.loc.zip_path].closed
             \/ /\ BackupNext = "cleanup"
                /\ op.fault = "write"
       /\ BackupStep = "retain"
          => /\ store[op.loc.zip_path].closed
             /\ BackupNext = "end"
             /\ last'.result = Created(op.loc.zip_path)
       /\ BackupStep = "cleanup"
          => /\ BackupNext = "end"
             /\ last'.result = Fail
       /\ (\/ BackupStep = "write"
           \/ BackupStep = "start" /\ (Returns("backup") \/ op'.name = "backup"))
          => ContainerNames(store) \subseteq ContainerNames(store')]_vars

\* the files of a tree as (name, bytes) pairs
TreeFiles(tree) == {[name |-> n, data |-> tree[n]] : n \in DOMAIN tree}

\* C25: after restore_backup returns success = true, the target directory
\* holds exactly the container's entries other than the metadata record, with
\* their bytes; no file that was in the target before and is not in the
\* container is left in it.
C25_RestoreReplacesTarget ==
    [][(Returns("restore") /\ last'.result.success)
       => /\ save'.exists
          /\ TreeFiles(save'.files) = FileEntries(store[last'.args.path].entries)]_vars

\* C26: a file whose content cannot be read adds nothing to the hash: the hash
\* of a tree is the hash of the tree without its unreadable files, and the
\* computation returns a hash however many files are unreadable.
C26_UnreadableFilesSkipped ==
    [][(Returns("hash") /\ "got" \in DOMAIN last'.loc)
       => /\ last'.result.kind = "hash"
          /\ last'.result.hash =
                _compute_folder_hash(
                    Restrict(save.files,
                             DOMAIN save.files \ Unreadable(save.files, last'.loc.got)))]_vars

\* both calls are past DEDUP_CHECK and neither has written
BothBeforeWrite == op.name = "backup" /\ op.loc.pc = "write" /\ bg.pc = "write"

\* C27: two backup_game calls for the same directory and the same unchanged
\* tree that have both passed DEDUP_CHECK before either wrote both write a
\* container, whatever the other has written in the meantime, and neither is
\* skipped; when both took their timestamp in the same second they write to
\* the same archive path.
C27_ConcurrentBackupsRace ==
    [][/\ (bg.pc = "write" /\ bg'.pc # "write")
          => /\ bg'.pc = "retain"
             /\ store'[bg.zip_path].closed
             /\ store'[bg.zip_path].mtime = now
       /\ (op.name = "backup" /\ op.loc.pc = "write" /\ bg.pc # "idle" /\ op' # op)
          => /\ op'.loc.pc = "retain"
             /\ store'[op.loc.zip_path].closed
       /\ (bg.pc = "retain" /\ bg'.pc = "done")
          => bg'.result = Created(bg.zip_path)
       /\ (BothBeforeWrite /\ bg.dir = op.loc.dir /\ bg.timestamp = op.loc.zip_path.ts)
          => bg.zip_path = op.loc.zip_path]_vars

\* both calls, neither forced, saw a latest hash other than the tree's, both
\* returned a created archive, and it is one and the same path: one container
\* is left of the two writes
C27_Witness ==
    /\ bg.pc = "done"
    /\ bg.result.success
    /\ ~bg.result.skipped
    /\ ~bg.args.force
    /\ bg.latest_hash # bg.current_hash
    /\ last.name = "backup"
    /\ ~last.args.force
    /\ last.save.files = save.files
    /\ last.result = bg.result
    /\ Cardinality(Containers(store)) = 1

\* C28: whenever backup_game returns success = true with skipped = false, the
\* archive at the returned backup_path exists when the call returns, for every
\* retention limit >= 1, also when another container of the collection has
\* the modification time of the new one.
C28_NewContainerSurvives ==
    [][(/\ Returns("backup")
        /\ last'.result.success
        /\ ~last'.result.skipped)
       => /\ last'.result.path # <<>>
          /\ last'.result.path[1] \in DOMAIN store'
          /\ store'[last'.result.path[1]].closed]_vars

\* C29: get_backups of a game returns only records of containers stored for
\* that game, and the directories _find_game_backup_dirs selects for it never
\* include a directory of a game with another id, also when that id ends in
\* "__" followed by the game's id.
C29_CatalogIsolation ==
    [][(Returns("get_backups") /\ last'.result.kind = "list")
       => /\ \A i \in 1..Len(last'.result.items) :
                last'.result.items[i].game_id = GameId
          /\ \A h \in OtherGameIds :
                _find_game_backup_dirs(dirs, GameId) \cap DirsOfGame(h) = {}]_vars

\* the same for other games whose id does not end in "__" followed by GameId
C29_IsolationOfUnrelatedIds ==
    [][(Returns("get_backups") /\ last'.result.kind = "list")
       => /\ \A i \in 1..Len(last'.result.items) :
                last'.result.items[i].game_id \in
                   {GameId} \cup {h \in OtherGameIds : IsSuffix(<<"_", "_">> \o GameId, h)}
          /\ \A h \in OtherGameIds :
                IsSuffix(<<"_", "_">> \o GameId, h)
                \/ _find_game_backup_dirs(dirs, GameId) \cap DirsOfGame(h) = {}]_vars

\* a listing of the game has returned while containers of both other games exist
C29_Witness ==
    /\ last.name = "get_backups"
    /\ last.result.kind = "list"
    /\ \A h \in OtherGameIds : \E p \in DOMAIN store : p.dir \in DirsOfGame(h)

\* C30: whatever load_config calls, in-place changes to what they returned,
\* save_config, set and reset came before, a load_config with no config file
\* returns the built-in defaults (user_games empty, max_backups 10, first_run
\* true), and reset() writes exactly the built-in defaults to the file.
C30_DefaultsNeverAltered ==
    [][/\ (Returns("load_config") /\ cm.file = <<>>)
             => last'.result.value = BuiltInDefaults
       /\ Returns("reset") => cm'.file = BuiltInDefaults]_vars

\* the same while nothing was appended to the list load_config handed out
\* from DEFAULT_CONFIG
C30_DefaultsWhileListUntouched ==
    [][cm.default_games = <<>>
       => /\ (Returns("load_config") /\ cm.file = <<>>)
                => last'.result.value = BuiltInDefaults
          /\ Returns("reset") => cm'.file = BuiltInDefaults]_vars

====
